---- MODULE Spec2Model ----
(***************************************************************************)
(* Streaming anomaly-detection core of the IoT telemetry pipeline          *)
(* (AWS/Lambda-Functions/anomaly-detection/lambda_function.py).            *)
(*                                                                         *)
(* Numbers.  CPU readings are whole percentages.  Every derived real       *)
(* quantity (mean, standard deviation, median, ewma, scores, thresholds)   *)
(* is held in fixed point, as an integer count of 1/SCALE units, and every *)
(* product or quotient is rounded down to that resolution.                 *)
(***************************************************************************)
EXTENDS Integers, Sequences, FiniteSets, TLC

\* three decimal places
SCALE == 10 * 10 * 10

\* Python's None and a present value: a sequence of no or one element
None == <<>>

Some(x) == <<x>>

Abs(x) == IF x < 0 THEN -x ELSE x

Min2(a, b) == IF a < b THEN a ELSE b

Max2(a, b) == IF a > b THEN a ELSE b

\* floor(a * b / c) for b >= 0, c > 0, without forming the full product a * b
MulDiv(a, b, c) == (a \div c) * b + ((a % c) * b) \div c

\* fixed-point quotient a / b of two fixed-point numbers, b > 0
FDiv(a, b) == MulDiv(a, SCALE, b)

\* fixed-point product of two fixed-point numbers
FMul(a, b) == MulDiv(a, b, SCALE)

\* F(x), with x evaluated once and before F: the assignment of x to a local
\* variable that F then reads
Bind(x, F(_)) == CHOOSE y \in {F(v) : v \in {x}} : TRUE

RECURSIVE SqrtIter(_, _, _)
SqrtIter(n, lo, hi) ==
    IF lo >= hi THEN lo
    ELSE Bind((lo + hi + 1) \div 2,
              LAMBDA mid : IF mid <= n \div mid THEN SqrtIter(n, mid, hi)
                                                ELSE SqrtIter(n, lo, mid - 1))

\* floor of the square root of a natural number
ISqrt(n) == IF n <= 0 THEN 0 ELSE SqrtIter(n, 1, Min2(n, 46340))

\* square root of a fixed-point number, as a fixed-point number
FSqrt(x) == Bind(x * SCALE, LAMBDA n : ISqrt(n))

\* s[lo] + ... + s[hi], lo <= hi
RECURSIVE SumRange(_, _, _)
SumRange(s, lo, hi) ==
    IF lo = hi THEN s[lo]
    ELSE SumRange(s, lo, (lo + hi) \div 2)
         + SumRange(s, (lo + hi) \div 2 + 1, hi)

Sum(s) == IF Len(s) = 0 THEN 0 ELSE SumRange(s, 1, Len(s))

SumSq(s) ==
    IF Len(s) = 0 THEN 0
    ELSE SumRange([i \in 1..Len(s) |-> s[i] * s[i]], 1, Len(s))

\* the readings of a window as fixed-point numbers
ToFixed(data) == [i \in 1..Len(data) |-> data[i] * SCALE]

\* statistics.mean of a sequence of whole readings
mean(data) == Bind(data, LAMBDA d : (Sum(d) * SCALE) \div Len(d))

\* n * sum(x^2) - sum(x)^2: n * (n - 1) times the sample variance
SumSqDev(d) == Bind(Sum(d), LAMBDA t : Len(d) * SumSq(d) - t * t)

\* statistics.stdev (sample standard deviation, N-1 denominator)
stdev(data) ==
    Bind(data,
         LAMBDA d : FSqrt(MulDiv(SumSqDev(d), SCALE, Len(d) * (Len(d) - 1))))

\* the k-th smallest element (1-based) of a sequence of integers
Kth(s, k) ==
    CHOOSE v \in {s[i] : i \in 1..Len(s)} :
        /\ Cardinality({i \in 1..Len(s) : s[i] < v}) < k
        /\ Cardinality({i \in 1..Len(s) : s[i] <= v}) >= k

\* statistics.median of a non-empty sequence of fixed-point numbers
median(data) ==
    Bind(data,
         LAMBDA s : IF Len(s) % 2 = 1 THEN Kth(s, (Len(s) + 1) \div 2)
                    ELSE (Kth(s, Len(s) \div 2) + Kth(s, Len(s) \div 2 + 1))
                         \div 2)

(***************************************************************************)
(* Configuration and constants (lambda_function.py lines 30-47).           *)
(***************************************************************************)
S3_KEY == "anomaly_detection_state.pkl"

BASELINE_S3_KEY == "baseline_values.pkl"

WINDOW_SIZE == 100

\* ALPHA = 0.1 and LAMBDA_ = 0.98, in fixed point
ALPHA == 100

LAMBDA_ == 980

HAMPEL_K == 7

\* a default set with the hampel default at the top of its range
DEFAULT_THRESHOLDS_Loose ==
    [z_score |-> 2500, ewma_score |-> 2000, rate_of_change |-> 20000,
     mad |-> 3500, hampel |-> 3500]

DEFAULT_THRESHOLDS ==
    [z_score |-> 2500, ewma_score |-> 2000, rate_of_change |-> 20000,
     mad |-> 3500, hampel |-> 3000]

\* an S3 key that holds no object, and an object whose bytes do not unpickle
NoObject == [kind |-> "NoObject"]

Corrupt == [kind |-> "Corrupt"]

Methods == <<"z_score", "ewma_score", "rate_of_change">>

(***************************************************************************)
(* State store adapter.                                                    *)
(***************************************************************************)
\* the state with which an invocation starts when nothing could be loaded
ColdState ==
    [cpu_history |-> <<>>, ewma_cpu |-> None, ewmstd_cpu |-> Some(1 * SCALE),
     last_cpu |-> None]

\* deque(iterable, maxlen = n): the last n items
Deque(s, n) == IF Len(s) <= n THEN s ELSE SubSeq(s, Len(s) - n + 1, Len(s))

\* the key under which the state of a device is stored: the configured S3_KEY,
\* whatever the device
StateKey(device) == S3_KEY

\* s3.get_object + pickle.loads: the outcome of reading one key
GetObject(obj, s3ok) ==
    IF ~s3ok THEN "ClientError"
    ELSE IF obj = NoObject THEN "NoSuchKey"
    ELSE IF obj = Corrupt THEN "UnpicklingError"
    ELSE "ok"

\* load_state with only the NoSuchKey handler: any other failure propagates
load_state_OnlyNoSuchKey(obj, s3ok) ==
    IF GetObject(obj, s3ok) = "ok"
    THEN [raised |-> FALSE,
          state |-> [cpu_history |-> Deque(obj.cpu_history, WINDOW_SIZE),
                     ewma_cpu |-> obj.ewma_cpu,
                     ewmstd_cpu |-> obj.ewmstd_cpu,
                     last_cpu |-> obj.last_cpu]]
    ELSE [raised |-> GetObject(obj, s3ok) # "NoSuchKey", state |-> ColdState]

\* load_state: raised is TRUE when an exception leaves the function
load_state(obj, s3ok) ==
    IF GetObject(obj, s3ok) = "ok"
    THEN [raised |-> FALSE,
          state |-> [cpu_history |-> Deque(obj.cpu_history, WINDOW_SIZE),
                     ewma_cpu |-> obj.ewma_cpu,
                     ewmstd_cpu |-> obj.ewmstd_cpu,
                     last_cpu |-> obj.last_cpu]]
    ELSE [raised |-> FALSE, state |-> ColdState]

\* save_state with the put going to the baseline key
save_state_OverBaseline(old, cpu_history, ewma_cpu, ewmstd_cpu, last_cpu, s3ok) ==
    IF s3ok
    THEN [raised |-> FALSE, key |-> BASELINE_S3_KEY,
          object |-> [cpu_history |-> cpu_history, ewma_cpu |-> ewma_cpu,
                      ewmstd_cpu |-> ewmstd_cpu, last_cpu |-> last_cpu]]
    ELSE [raised |-> FALSE, key |-> S3_KEY, object |-> old]

\* save_state as a conditional put: the write is dropped when the stored
\* window is not the one the saved window was computed from
save_state_IfUnchanged(old, cpu_history, ewma_cpu, ewmstd_cpu, last_cpu, s3ok) ==
    IF s3ok /\ (old \in {NoObject, Corrupt}
                \/ Deque(Append(old.cpu_history, last_cpu[1]), WINDOW_SIZE)
                   = cpu_history)
    THEN [raised |-> FALSE, key |-> S3_KEY,
          object |-> [cpu_history |-> cpu_history, ewma_cpu |-> ewma_cpu,
                      ewmstd_cpu |-> ewmstd_cpu, last_cpu |-> last_cpu]]
    ELSE [raised |-> FALSE, key |-> S3_KEY, object |-> old]

\* save_state that leaves last_cpu out of the pickled dictionary
save_state_WithoutLast(old, cpu_history, ewma_cpu, ewmstd_cpu, last_cpu, s3ok) ==
    IF s3ok
    THEN [raised |-> FALSE, key |-> S3_KEY,
          object |-> [cpu_history |-> cpu_history, ewma_cpu |-> ewma_cpu,
                      ewmstd_cpu |-> ewmstd_cpu, last_cpu |-> None]]
    ELSE [raised |-> FALSE, key |-> S3_KEY, object |-> old]

\* save_state: the key it puts to and the object that key holds afterwards
\* (old is the object it holds before); a failed put is logged
save_state(old, cpu_history, ewma_cpu, ewmstd_cpu, last_cpu, s3ok) ==
    IF s3ok
    THEN [raised |-> FALSE, key |-> S3_KEY,
          object |-> [cpu_history |-> cpu_history, ewma_cpu |-> ewma_cpu,
                      ewmstd_cpu |-> ewmstd_cpu, last_cpu |-> last_cpu]]
    ELSE [raised |-> FALSE, key |-> S3_KEY, object |-> old]

\* load_baseline
load_baseline(obj, s3ok) ==
    IF GetObject(obj, s3ok) = "ok" THEN Some(obj) ELSE None

\* a clamp that enforces the upper bound only
Clamp_NoFloor(lo, hi, x) == Min2(hi, x)

Clamp(lo, hi, x) == Max2(lo, Min2(hi, x))

\* the five thresholds derived from a mean and a standard deviation
DerivedThresholds(mean_val, std) ==
    [z_score |->
         Clamp(2000, 3000, IF std > 0 THEN FDiv(mean_val, std) ELSE 2500),
     ewma_score |->
         Clamp(1500, 2500,
               IF mean_val > 0 THEN FDiv(2 * std, mean_val) ELSE 2000),
     rate_of_change |-> Clamp(15000, 25000, 3 * std),
     mad |-> Clamp(3000, 4000, 3500 + std \div 10),
     hampel |-> Clamp(2500, 3500, 3000 + std \div 20)]

\* save_baseline_values: the baseline written for a calibration data set
\* (NoObject when nothing is written)
save_baseline_values(cpu_values) ==
    IF Len(cpu_values) < 2 THEN NoObject
    ELSE Bind(mean(cpu_values), LAMBDA mean_val :
         Bind(stdev(cpu_values), LAMBDA std_val :
         Bind(DerivedThresholds(mean_val, std_val), LAMBDA t :
             [mean |-> mean_val, std |-> std_val,
              median |-> median(ToFixed(cpu_values)),
              z_score_threshold |-> t.z_score,
              ewma_score_threshold |-> t.ewma_score,
              rate_of_change_threshold |-> t.rate_of_change,
              mad_threshold |-> t.mad,
              hampel_threshold |-> t.hampel])))

(***************************************************************************)
(* Threshold calculator.                                                   *)
(***************************************************************************)
\* the calculator with the warm-up test ahead of the baseline test
calculate_adaptive_thresholds_WindowFirst(cpu_history, baseline) ==
    IF Len(cpu_history) < WINDOW_SIZE \div 2 THEN DEFAULT_THRESHOLDS
    ELSE IF baseline # None
    THEN [z_score |-> baseline[1].z_score_threshold,
          ewma_score |-> baseline[1].ewma_score_threshold,
          rate_of_change |-> baseline[1].rate_of_change_threshold,
          mad |-> baseline[1].mad_threshold,
          hampel |-> baseline[1].hampel_threshold]
    ELSE Bind(mean(cpu_history), LAMBDA mean_val :
         Bind(IF Len(cpu_history) > 1 THEN stdev(cpu_history) ELSE 1 * SCALE,
              LAMBDA std : DerivedThresholds(mean_val, std)))

calculate_adaptive_thresholds(cpu_history, baseline) ==
    IF baseline # None
    THEN [z_score |-> baseline[1].z_score_threshold,
          ewma_score |-> baseline[1].ewma_score_threshold,
          rate_of_change |-> baseline[1].rate_of_change_threshold,
          mad |-> baseline[1].mad_threshold,
          hampel |-> baseline[1].hampel_threshold]
    ELSE IF Len(cpu_history) < WINDOW_SIZE \div 2 THEN DEFAULT_THRESHOLDS
    ELSE Bind(mean(cpu_history), LAMBDA mean_val :
         Bind(IF Len(cpu_history) > 1 THEN stdev(cpu_history) ELSE 1 * SCALE,
              LAMBDA std : DerivedThresholds(mean_val, std)))

(***************************************************************************)
(* Detectors.                                                              *)
(***************************************************************************)
\* median of the absolute deviations from med
MadOf(data, med) ==
    median([i \in 1..Len(data) |-> Abs(data[i] - med)])

\* the test without the mad == 0 return: a division by 0 taken as infinite
Exceeds_NoGuard(dev, mad, threshold) ==
    IF mad = 0 THEN dev > 0 ELSE FDiv(dev, mad) > threshold

\* the test both detectors end with: score = factor * dev / mad > threshold,
\* never when mad is 0
Exceeds(dev, mad, threshold) ==
    IF mad = 0 THEN FALSE ELSE FDiv(dev, mad) > threshold

\* modified_z_score over fixed-point data
\* modified_z_score on the absolute deviation of the newest value
modified_z_score_TwoSided(data, threshold) ==
    Bind(data, LAMBDA d :
        Bind(median(d), LAMBDA med :
            Bind(MadOf(d, med), LAMBDA mad :
                Exceeds(MulDiv(Abs(d[Len(d)] - med), 6745, 10000), mad,
                        threshold))))

modified_z_score(data, threshold) ==
    Bind(data, LAMBDA d :
        Bind(median(d), LAMBDA med :
            Bind(MadOf(d, med), LAMBDA mad :
                Exceeds(MulDiv(d[Len(d)] - med, 6745, 10000), mad,
                        threshold))))

\* hampel_filter with median and MAD taken over all values before the newest
hampel_filter_WholeWindow(data, k, threshold) ==
    IF Len(data) < 2 * k + 1 THEN FALSE
    ELSE Bind(SubSeq(data, 1, Len(data) - 1), LAMBDA window :
             Bind(median(window), LAMBDA med :
                 Bind(MadOf(window, med), LAMBDA mad :
                     Exceeds(Abs(data[Len(data)] - med), mad, threshold))))

\* hampel_filter over fixed-point data
hampel_filter(data, k, threshold) ==
    IF Len(data) < 2 * k + 1 THEN FALSE
    ELSE Bind(SubSeq(data, Len(data) - 2 * k, Len(data) - 1), LAMBDA window :
             Bind(median(window), LAMBDA med :
                 Bind(MadOf(window, med), LAMBDA mad :
                     Exceeds(Abs(data[Len(data)] - med), mad, threshold))))

\* determine_severity with the HIGH test ahead of the CRITICAL test
determine_severity_HighFirst(count, scores, thresholds) ==
    IF count >= 3 \/ 2 * scores.z_score > thresholds.z_score * 3 THEN "HIGH"
    ELSE IF count >= 4 \/ scores.z_score > thresholds.z_score * 2
         THEN "CRITICAL"
    ELSE "MEDIUM"

determine_severity(count, scores, thresholds) ==
    IF count >= 4 \/ scores.z_score > thresholds.z_score * 2 THEN "CRITICAL"
    ELSE IF count >= 3 \/ 2 * scores.z_score > thresholds.z_score * 3
         THEN "HIGH"
    ELSE "MEDIUM"

(***************************************************************************)
(* Detection engine.                                                       *)
(***************************************************************************)
\* append on a plain list: nothing is evicted
DequeAppend_NoEviction(cpu_history, cpu) == Append(cpu_history, cpu)

\* an append that starts the window over once it is full
DequeAppend_Restart(cpu_history, cpu) ==
    IF Len(cpu_history) >= WINDOW_SIZE THEN <<cpu>>
    ELSE Append(cpu_history, cpu)

\* deque.append on a deque of maxlen WINDOW_SIZE
DequeAppend(cpu_history, cpu) == Deque(Append(cpu_history, cpu), WINDOW_SIZE)

\* the collection with a score that equals its threshold counted as a trigger
triggered_methods_Inclusive(scores, thresholds, history_list) ==
    Bind(ToFixed(history_list), LAMBDA data :
    Bind(SelectSeq(Methods, LAMBDA m : scores[m] >= thresholds[m]),
         LAMBDA direct :
    Bind(IF modified_z_score(data, thresholds.mad)
         THEN Append(direct, "mad") ELSE direct,
         LAMBDA withMad :
             IF hampel_filter(data, HAMPEL_K, thresholds.hampel)
             THEN Append(withMad, "hampel") ELSE withMad)))

\* the names of the detectors that trigger, in the order the code collects them
triggered_methods(scores, thresholds, history_list) ==
    Bind(ToFixed(history_list), LAMBDA data :
    Bind(SelectSeq(Methods, LAMBDA m : scores[m] > thresholds[m]),
         LAMBDA direct :
    Bind(IF modified_z_score(data, thresholds.mad)
         THEN Append(direct, "mad") ELSE direct,
         LAMBDA withMad :
             IF hampel_filter(data, HAMPEL_K, thresholds.hampel)
             THEN Append(withMad, "hampel") ELSE withMad)))

\* the smoothing step of detect_anomaly: the new ewma, the deviation of the
\* reading from it and the new ewmstd
Smooth(value, mean_val, ewma_cpu, ewmstd_cpu) ==
    Bind((ALPHA * value
          + (SCALE - ALPHA) * (IF ewma_cpu = None THEN mean_val
                                                  ELSE ewma_cpu[1]))
         \div SCALE,
         LAMBDA ewma_new :
    Bind(Abs(value - ewma_new), LAMBDA ewma_dev :
        [ewma_cpu |-> ewma_new,
         ewma_dev |-> ewma_dev,
         ewmstd_cpu |->
             IF ewmstd_cpu # None
             THEN FSqrt((LAMBDA_ * FMul(ewmstd_cpu[1], ewmstd_cpu[1])
                         + (SCALE - LAMBDA_) * FMul(ewma_dev, ewma_dev))
                        \div SCALE)
             ELSE 1 * SCALE]))

\* the scores with the rate of change left at 0, as if no last value were known
Scores_NoRate(cpu, mean_val, std_val, sm, last_cpu) ==
    [z_score |-> FDiv(Abs(cpu * SCALE - mean_val), std_val),
     ewma_score |->
         FDiv(sm.ewma_dev, IF sm.ewmstd_cpu = 0 THEN SCALE ELSE sm.ewmstd_cpu),
     rate_of_change |-> 0]

\* the three direct scores; the caller has checked std_val # 0
Scores(cpu, mean_val, std_val, sm, last_cpu) ==
    [z_score |-> FDiv(Abs(cpu * SCALE - mean_val), std_val),
     ewma_score |->
         FDiv(sm.ewma_dev, IF sm.ewmstd_cpu = 0 THEN SCALE ELSE sm.ewmstd_cpu),
     rate_of_change |->
         IF last_cpu # None THEN Abs(cpu - last_cpu[1]) * SCALE ELSE 0]

\* a report whose window snapshot was taken before the append
AnomalyReport_StaleWindow(cpu, triggered, scores, thresholds, mean_val, std_val, history_list) ==
    [value |-> cpu,
     severity |-> determine_severity(Len(triggered), scores, thresholds),
     methods_triggered |-> triggered,
     method_count |-> Len(triggered),
     z_score |-> scores.z_score,
     ewma_score |-> scores.ewma_score,
     rate_of_change |-> scores.rate_of_change,
     hampel_score |-> \E i \in 1..Len(triggered) : triggered[i] = "hampel",
     cpu_mean |-> mean_val, cpu_std |-> std_val,
     cpu_window |-> SubSeq(history_list, 1, Len(history_list) - 1)]

\* the anomaly_report dictionary
AnomalyReport(cpu, triggered, scores, thresholds, mean_val, std_val, history_list) ==
    [value |-> cpu,
     severity |-> determine_severity(Len(triggered), scores, thresholds),
     methods_triggered |-> triggered,
     method_count |-> Len(triggered),
     z_score |-> scores.z_score,
     ewma_score |-> scores.ewma_score,
     rate_of_change |-> scores.rate_of_change,
     hampel_score |-> \E i \in 1..Len(triggered) : triggered[i] = "hampel",
     cpu_mean |-> mean_val, cpu_std |-> std_val,
     cpu_window |-> history_list]

\* warm-up tests that are off by one, either way
WarmingUp_Short(history_list) == Len(history_list) < WINDOW_SIZE \div 2 - 1

WarmingUp_Inclusive(history_list) == Len(history_list) <= WINDOW_SIZE \div 2

\* the warm-up test of detect_anomaly on the window after the append
WarmingUp(history_list) == Len(history_list) < WINDOW_SIZE \div 2

\* a decision rule that reports on a single trigger
IsAnomaly_AnyTrigger(triggered) == Len(triggered) >= 1

\* the decision rule of detect_anomaly on the triggered detector names
IsAnomaly(triggered) == Len(triggered) >= 2

\* detect_anomaly that hands back the smoothing state and last value it was
\* given when it returns no report
detect_anomaly_QuietKeeps(cpu, cpu_history, ewma_cpu, ewmstd_cpu, last_cpu, baseline) ==
    Bind(DequeAppend(cpu_history, cpu), LAMBDA history_list :
    IF WarmingUp(history_list)
    THEN [raised |-> FALSE, path |-> "WARMING_UP", report |-> None,
          ewma_cpu |-> ewma_cpu, ewmstd_cpu |-> ewmstd_cpu,
          last_cpu |-> Some(cpu), cpu_history |-> history_list,
          triggered |-> <<>>, scores |-> None, thresholds |-> None]
    ELSE
    Bind(calculate_adaptive_thresholds(history_list, baseline),
         LAMBDA thresholds :
    Bind(mean(history_list), LAMBDA mean_val :
    Bind(IF Len(history_list) > 1 THEN stdev(history_list) ELSE 1 * SCALE,
         LAMBDA std_val :
    Bind(Smooth(cpu * SCALE, mean_val, ewma_cpu, ewmstd_cpu), LAMBDA sm :
    IF std_val = 0
    THEN [raised |-> TRUE, path |-> "ACTIVE", report |-> None,
          ewma_cpu |-> Some(sm.ewma_cpu), ewmstd_cpu |-> Some(sm.ewmstd_cpu),
          last_cpu |-> last_cpu, cpu_history |-> history_list,
          triggered |-> <<>>, scores |-> None,
          thresholds |-> Some(thresholds)]
    ELSE
    Bind(Scores(cpu, mean_val, std_val, sm, last_cpu), LAMBDA scores :
    Bind(triggered_methods(scores, thresholds, history_list),
         LAMBDA triggered :
         [raised |-> FALSE, path |-> "ACTIVE",
          report |-> IF IsAnomaly(triggered)
                     THEN Some(AnomalyReport(cpu, triggered, scores,
                                             thresholds, mean_val, std_val,
                                             history_list))
                     ELSE None,
          ewma_cpu |-> IF IsAnomaly(triggered) THEN Some(sm.ewma_cpu)
                       ELSE ewma_cpu,
          ewmstd_cpu |-> IF IsAnomaly(triggered) THEN Some(sm.ewmstd_cpu)
                         ELSE ewmstd_cpu,
          last_cpu |-> IF IsAnomaly(triggered) THEN Some(cpu) ELSE last_cpu,
          cpu_history |-> history_list,
          triggered |-> triggered, scores |-> Some(scores),
          thresholds |-> Some(thresholds)])))))))

\* detect_anomaly that hands back the last value it was given on the warm-up
\* path
detect_anomaly_WarmKeepsLast(cpu, cpu_history, ewma_cpu, ewmstd_cpu, last_cpu, baseline) ==
    Bind(DequeAppend(cpu_history, cpu), LAMBDA history_list :
    IF WarmingUp(history_list)
    THEN [raised |-> FALSE, path |-> "WARMING_UP", report |-> None,
          ewma_cpu |-> ewma_cpu, ewmstd_cpu |-> ewmstd_cpu,
          last_cpu |-> last_cpu, cpu_history |-> history_list,
          triggered |-> <<>>, scores |-> None, thresholds |-> None]
    ELSE
    Bind(calculate_adaptive_thresholds(history_list, baseline),
         LAMBDA thresholds :
    Bind(mean(history_list), LAMBDA mean_val :
    Bind(IF Len(history_list) > 1 THEN stdev(history_list) ELSE 1 * SCALE,
         LAMBDA std_val :
    Bind(Smooth(cpu * SCALE, mean_val, ewma_cpu, ewmstd_cpu), LAMBDA sm :
    IF std_val = 0
    THEN [raised |-> TRUE, path |-> "ACTIVE", report |-> None,
          ewma_cpu |-> Some(sm.ewma_cpu), ewmstd_cpu |-> Some(sm.ewmstd_cpu),
          last_cpu |-> last_cpu, cpu_history |-> history_list,
          triggered |-> <<>>, scores |-> None,
          thresholds |-> Some(thresholds)]
    ELSE
    Bind(Scores(cpu, mean_val, std_val, sm, last_cpu), LAMBDA scores :
    Bind(triggered_methods(scores, thresholds, history_list),
         LAMBDA triggered :
         [raised |-> FALSE, path |-> "ACTIVE",
          report |-> IF IsAnomaly(triggered)
                     THEN Some(AnomalyReport(cpu, triggered, scores,
                                             thresholds, mean_val, std_val,
                                             history_list))
                     ELSE None,
          ewma_cpu |-> Some(sm.ewma_cpu), ewmstd_cpu |-> Some(sm.ewmstd_cpu),
          last_cpu |-> Some(cpu), cpu_history |-> history_list,
          triggered |-> triggered, scores |-> Some(scores),
          thresholds |-> Some(thresholds)])))))))

\* detect_anomaly.  The result holds the four returned values, the window
\* (mutated in place by the code), and the locals thresholds, scores and
\* triggered_methods.  raised is TRUE when the call ends in the
\* ZeroDivisionError of the z_score division.
detect_anomaly(cpu, cpu_history, ewma_cpu, ewmstd_cpu, last_cpu, baseline) ==
    Bind(DequeAppend(cpu_history, cpu), LAMBDA history_list :
    IF WarmingUp(history_list)
    THEN [raised |-> FALSE, path |-> "WARMING_UP", report |-> None,
          ewma_cpu |-> ewma_cpu, ewmstd_cpu |-> ewmstd_cpu,
          last_cpu |-> Some(cpu), cpu_history |-> history_list,
          triggered |-> <<>>, scores |-> None, thresholds |-> None]
    ELSE
    Bind(calculate_adaptive_thresholds(history_list, baseline),
         LAMBDA thresholds :
    Bind(mean(history_list), LAMBDA mean_val :
    Bind(IF Len(history_list) > 1 THEN stdev(history_list) ELSE 1 * SCALE,
         LAMBDA std_val :
    Bind(Smooth(cpu * SCALE, mean_val, ewma_cpu, ewmstd_cpu), LAMBDA sm :
    IF std_val = 0
    THEN [raised |-> TRUE, path |-> "ACTIVE", report |-> None,
          ewma_cpu |-> Some(sm.ewma_cpu), ewmstd_cpu |-> Some(sm.ewmstd_cpu),
          last_cpu |-> last_cpu, cpu_history |-> history_list,
          triggered |-> <<>>, scores |-> None,
          thresholds |-> Some(thresholds)]
    ELSE
    Bind(Scores(cpu, mean_val, std_val, sm, last_cpu), LAMBDA scores :
    Bind(triggered_methods(scores, thresholds, history_list),
         LAMBDA triggered :
         [raised |-> FALSE, path |-> "ACTIVE",
          report |-> IF IsAnomaly(triggered)
                     THEN Some(AnomalyReport(cpu, triggered, scores,
                                             thresholds, mean_val, std_val,
                                             history_list))
                     ELSE None,
          ewma_cpu |-> Some(sm.ewma_cpu), ewmstd_cpu |-> Some(sm.ewmstd_cpu),
          last_cpu |-> Some(cpu), cpu_history |-> history_list,
          triggered |-> triggered, scores |-> Some(scores),
          thresholds |-> Some(thresholds)])))))))

\* send_to_eventbridge with detail = anomaly_report instead of a copy: the
\* identifying fields are added to the caller's report
send_to_eventbridge_Aliased(anomaly_report, timestamp, device_id, sinkok) ==
    [raised |-> FALSE,
     returned |-> sinkok,
     event |-> IF sinkok
               THEN Some([detail |-> anomaly_report, device_id |-> device_id,
                          timestamp |-> timestamp,
                          anomaly_type |-> "cpu_usage"])
               ELSE None,
     report |-> [f \in DOMAIN anomaly_report \cup {"device_id", "timestamp"} |->
                   IF f = "device_id" THEN <<device_id>>
                   ELSE IF f = "timestamp" THEN <<timestamp>>
                   ELSE <<anomaly_report[f]>>]]

\* send_to_eventbridge without its except clause: a failed put propagates
send_to_eventbridge_Raises(anomaly_report, timestamp, device_id, sinkok) ==
    [raised |-> ~sinkok,
     returned |-> sinkok,
     event |-> IF sinkok
               THEN Some([detail |-> anomaly_report, device_id |-> device_id,
                          timestamp |-> timestamp,
                          anomaly_type |-> "cpu_usage"])
               ELSE None,
     report |-> anomaly_report]

\* send_to_eventbridge: the value returned, the event put on the bus (None
\* when the put fails) and the report as the caller holds it afterwards
send_to_eventbridge(anomaly_report, timestamp, device_id, sinkok) ==
    [raised |-> FALSE,
     returned |-> sinkok,
     event |-> IF sinkok
               THEN Some([detail |-> anomaly_report, device_id |-> device_id,
                          timestamp |-> timestamp,
                          anomaly_type |-> "cpu_usage"])
               ELSE None,
     report |-> anomaly_report]

(***************************************************************************)
(* The pipeline as a state machine.  One invocation of lambda_handler      *)
(* processes one reading: load_state, detect_anomaly, save_state and, when *)
(* a report was produced, send_to_eventbridge.                             *)
(***************************************************************************)
MaxReadings == 2

MaxFaults == 1

Devices == {"dev-A", "dev-B"}

Values == {50, 51, 95}

Procs == {1, 2}

\* the handler instances the serial specification uses
SerialProcs == {1}

Keys == {S3_KEY, BASELINE_S3_KEY}

VARIABLES
    store,      \* the bucket: the object held under each key
    inv,        \* per handler instance: position and local variables
    bus,        \* the events put on the event bus, in order
    arrived,    \* the readings whose detect_anomaly call returned, in order
    intact,     \* no put or get of the state key has failed so far
    faults,     \* the number of injected S3 and event bus failures
    nread,      \* the number of invocations started
    call,       \* one application of the threshold calculator and detectors
    twin,       \* two independent engine instances fed the same readings
    batch,      \* one invocation that processes several records in a row
    reg         \* the device registry and the registration requests

vars == <<store, inv, bus, arrived, intact, faults, nread, call, twin, batch,
         reg>>

\* the variables of the pipeline
pipeline == <<store, inv, bus, arrived, intact, faults, nread>>

\* call and twin where they play no part
NoCall == [window |-> <<>>]

NoTwin == <<>>

\* batch and reg where they play no part
NoBatch == <<>>

NoReg == <<>>

Idle ==
    [pc |-> "idle", device |-> "", cpu |-> 0, timestamp |-> 0,
     loadOutcome |-> "", raisedBy |-> "",
     loaded |-> None, cpu_history |-> <<>>, ewma_cpu |-> None,
     ewmstd_cpu |-> None, last_cpu |-> None, path |-> "",
     triggered |-> <<>>, scores |-> None, thresholds |-> None,
     report |-> None, sent |-> None, persisted |-> None]

\* p[i mod Len(p)] for i = 0..n-1
Pattern(p, n) == [i \in 1..n |-> p[((i - 1) % Len(p)) + 1]]

\* the state in the handler's hands after one invocation for the reading cpu
\* that started with state st and met no failure; an invocation that raises
\* leaves the state as it was
StepFrom(st, cpu) ==
    Bind(detect_anomaly(cpu, st.cpu_history, st.ewma_cpu, st.ewmstd_cpu,
                        st.last_cpu, None),
         LAMBDA r :
             IF r.raised THEN st
             ELSE [cpu_history |-> r.cpu_history, ewma_cpu |-> r.ewma_cpu,
                   ewmstd_cpu |-> r.ewmstd_cpu, last_cpu |-> r.last_cpu])

\* the state after the readings seq, one invocation each, starting with st:
\* RunFrom(st, left) evaluated first, then carried through right
RECURSIVE RunFrom(_, _)
RunFrom(st, seq) ==
    IF seq = <<>> THEN st
    ELSE IF Len(seq) = 1 THEN StepFrom(st, seq[1])
    ELSE LET h == Len(seq) \div 2
             left == SubSeq(seq, 1, h)
             right == SubSeq(seq, h + 1, Len(seq))
         IN  CHOOSE end \in {RunFrom(mid, right) : mid \in {RunFrom(st, left)}} :
                 TRUE

Noise == <<49, 50, 51>>

\* reading histories the bucket's initial state object results from
SeedReadings ==
    {Pattern(<<50>>, WINDOW_SIZE \div 2 - 1),
     Pattern(Noise, WINDOW_SIZE \div 2 - 2),
     Pattern(Noise, WINDOW_SIZE \div 2 - 1),
     Pattern(Noise, WINDOW_SIZE - 1),
     Pattern(Noise, 60),
     Pattern(<<51, 50>>, 60)}

\* the calibration run whose baseline the bucket may hold initially
CalibrationReadings == Pattern(Noise, 12)

TypeOK ==
    /\ DOMAIN store = Keys
    /\ DOMAIN inv = Procs
    /\ \A p \in Procs :
           inv[p].pc \in {"idle", "loaded", "detected", "saved", "done",
                          "crashed"}
    /\ intact \in BOOLEAN
    /\ faults \in 0..MaxFaults
    /\ nread \in 0..MaxReadings

Init ==
    /\ \E seed \in SeedReadings \cup {<<>>},
          corrupt \in BOOLEAN,
          base \in {NoObject, save_baseline_values(CalibrationReadings)} :
           /\ corrupt => seed = <<>> /\ base = NoObject
           /\ store = [k \in Keys |->
                         IF k = BASELINE_S3_KEY THEN base
                         ELSE IF corrupt THEN Corrupt
                         ELSE IF seed = <<>> THEN NoObject
                         ELSE RunFrom(ColdState, seed)]
           /\ arrived = [i \in 1..Len(seed) |->
                           [device |-> "dev-A", cpu |-> seed[i]]]
    /\ inv = [p \in Procs |-> Idle]
    /\ bus = <<>>
    /\ intact = TRUE
    /\ faults = 0
    /\ nread = 0
    /\ call = NoCall
    /\ twin = NoTwin
    /\ batch = NoBatch
    /\ reg = NoReg

Fault(ok) == IF ok THEN 0 ELSE 1

\* lambda_handler is invoked with a reading cpu of device d and loads the state
Invoke(p, d, cpu, s3ok) ==
    /\ inv[p].pc \in {"idle", "done", "crashed"}
    /\ nread < MaxReadings
    /\ faults + Fault(s3ok) <= MaxFaults
    /\ \E l \in {load_state(store[StateKey(d)], s3ok)} :
           inv' = [inv EXCEPT ![p] =
                     IF l.raised THEN [Idle EXCEPT !.pc = "crashed",
                                                    !.raisedBy = "load_state",
                                                    !.device = d, !.cpu = cpu,
                                                    !.timestamp = nread + 1]
                     ELSE [Idle EXCEPT !.pc = "loaded", !.device = d,
                                       !.cpu = cpu, !.timestamp = nread + 1,
                                       !.loadOutcome =
                                           GetObject(store[StateKey(d)], s3ok),
                                       !.loaded = Some(l.state),
                                       !.cpu_history = l.state.cpu_history,
                                       !.ewma_cpu = l.state.ewma_cpu,
                                       !.ewmstd_cpu = l.state.ewmstd_cpu,
                                       !.last_cpu = l.state.last_cpu]]
    /\ nread' = nread + 1
    /\ faults' = faults + Fault(s3ok)
    /\ intact' = (intact /\ s3ok)
    /\ UNCHANGED <<store, bus, arrived, call, twin, batch, reg>>

\* the handler calls detect_anomaly; s3ok is the outcome of the baseline read
Detect(p, s3ok) ==
    /\ inv[p].pc = "loaded"
    /\ faults + Fault(s3ok) <= MaxFaults
    /\ \E me \in {inv[p]} :
       \E r \in {detect_anomaly(me.cpu, me.cpu_history, me.ewma_cpu,
                                me.ewmstd_cpu, me.last_cpu,
                                load_baseline(store[BASELINE_S3_KEY], s3ok))} :
           /\ s3ok \/ (r.path = "ACTIVE" /\ store[BASELINE_S3_KEY] # NoObject)
           /\ inv' = [inv EXCEPT ![p] =
                        [me EXCEPT !.pc = IF r.raised THEN "crashed"
                                                      ELSE "detected",
                                   !.raisedBy = IF r.raised
                                                THEN "detect_anomaly" ELSE "",
                                   !.cpu_history = r.cpu_history,
                                   !.ewma_cpu = r.ewma_cpu,
                                   !.ewmstd_cpu = r.ewmstd_cpu,
                                   !.last_cpu = r.last_cpu,
                                   !.path = r.path,
                                   !.triggered = r.triggered,
                                   !.scores = r.scores,
                                   !.thresholds = r.thresholds,
                                   !.report = r.report]]
           /\ arrived' = IF r.raised THEN arrived
                         ELSE Append(arrived, [device |-> me.device,
                                               cpu |-> me.cpu])
    /\ faults' = faults + Fault(s3ok)
    /\ UNCHANGED <<store, bus, intact, nread, call, twin, batch, reg>>

\* the handler persists the window and smoothing state
Save(p, s3ok) ==
    /\ inv[p].pc = "detected"
    /\ faults + Fault(s3ok) <= MaxFaults
    /\ \E me \in {inv[p]} :
       \E w \in {save_state(store[StateKey(me.device)], me.cpu_history,
                            me.ewma_cpu, me.ewmstd_cpu, me.last_cpu, s3ok)} :
           /\ store' = [store EXCEPT ![w.key] = w.object]
           /\ inv' = [inv EXCEPT ![p] =
                        [me EXCEPT !.pc = IF w.raised THEN "crashed"
                                          ELSE IF me.report = None THEN "done"
                                          ELSE "saved",
                                   !.raisedBy = IF w.raised THEN "save_state"
                                                ELSE "",
                                   !.persisted = Some(s3ok)]]
    /\ faults' = faults + Fault(s3ok)
    /\ intact' = (intact /\ s3ok)
    /\ UNCHANGED <<bus, arrived, nread, call, twin, batch, reg>>

\* the handler hands the report to the event sink
Publish(p, sinkok) ==
    /\ inv[p].pc = "saved"
    /\ faults + Fault(sinkok) <= MaxFaults
    /\ \E me \in {inv[p]} :
       \E r \in {send_to_eventbridge(me.report[1], me.timestamp, me.device,
                                     sinkok)} :
           /\ inv' = [inv EXCEPT ![p] =
                        [me EXCEPT !.pc = IF r.raised THEN "crashed" ELSE "done",
                                   !.raisedBy = IF r.raised
                                                THEN "send_to_eventbridge"
                                                ELSE "",
                                   !.report = Some(r.report),
                                   !.sent = Some(r.returned)]]
           /\ bus' = IF r.event = None THEN bus ELSE Append(bus, r.event[1])
    /\ faults' = faults + Fault(sinkok)
    /\ UNCHANGED <<store, arrived, intact, nread, call, twin, batch, reg>>

\* no other handler instance is between its load and its end
Alone(p) == \A q \in Procs \ {p} : inv[q].pc \in {"idle", "done", "crashed"}

Next ==
    \/ \E p \in SerialProcs, d \in Devices, cpu \in Values, ok \in BOOLEAN :
           Alone(p) /\ Invoke(p, d, cpu, ok)
    \/ \E p \in SerialProcs, ok \in BOOLEAN : Detect(p, ok)
    \/ \E p \in SerialProcs, ok \in BOOLEAN : Save(p, ok)
    \/ \E p \in SerialProcs, ok \in BOOLEAN : Publish(p, ok)

Spec == Init /\ [][Next]_vars

(***************************************************************************)
(* Two handler instances that run concurrently on the same bucket: an      *)
(* invocation may start while the other is between its load and its save.  *)
(***************************************************************************)
\* the concurrent invocations are for one and the same device
ConcDevices == {"dev-A"}

\* the readings of the concurrent invocations
ConcValues == {51, 95}

\* reading histories the bucket's initial state object results from
ConcSeeds == {Pattern(Noise, WINDOW_SIZE \div 2 - 1),
              Pattern(Noise, WINDOW_SIZE - 1)}

\* the bucket holds the state the seed readings of dev-A left, and no baseline
InitConc ==
    /\ \E seed \in ConcSeeds :
           /\ store = [k \in Keys |->
                         IF k = BASELINE_S3_KEY THEN NoObject
                         ELSE RunFrom(ColdState, seed)]
           /\ arrived = [i \in 1..Len(seed) |->
                           [device |-> "dev-A", cpu |-> seed[i]]]
    /\ inv = [p \in Procs |-> Idle]
    /\ bus = <<>>
    /\ intact = TRUE
    /\ faults = 0
    /\ nread = 0
    /\ call = NoCall
    /\ twin = NoTwin
    /\ batch = NoBatch
    /\ reg = NoReg

NextConc ==
    \/ \E p \in Procs, d \in ConcDevices, cpu \in ConcValues,
          ok \in BOOLEAN :
           Invoke(p, d, cpu, ok)
    \/ \E p \in Procs, ok \in BOOLEAN : Detect(p, ok)
    \/ \E p \in Procs, ok \in BOOLEAN : Save(p, ok)
    \/ \E p \in Procs, ok \in BOOLEAN : Publish(p, ok)

SpecConc == InitConc /\ [][NextConc]_vars

(***************************************************************************)
(* The threshold calculator and the two MAD-based detectors, applied to    *)
(* one window: Init draws the window and the baseline object, the actions  *)
(* apply the functions.                                                    *)
(***************************************************************************)
\* window contents: constant, low noise, wide spread, zero and negative mean
FnPatterns ==
    {<<0>>, <<50>>, Noise, <<30, 70>>, <<5, 50>>, <<44, 56>>, <<-5, 5>>,
     <<-10, 5>>}

\* window lengths on both sides of the warm-up boundary
FnLengths ==
    {0, 1, WINDOW_SIZE \div 2 - 1, WINDOW_SIZE \div 2, WINDOW_SIZE \div 2 + 1,
     WINDOW_SIZE}

\* k identical values followed by one outlier
Spike(c, k, outlier) == Append(Pattern(<<c>>, k), outlier)

\* windows that end in an outlier: after identical values only, after noise
\* only, and after noise followed by 2 * HAMPEL_K identical values
FnSpikes ==
    {Spike(50, k, v) :
         k \in {1, 2, 2 * HAMPEL_K, 2 * HAMPEL_K + 1, WINDOW_SIZE \div 2,
                WINDOW_SIZE - 1},
         v \in {51, 95}}
    \cup {Append(Pattern(Noise, k), v) : k \in {2 * HAMPEL_K, 60}, v \in {5, 95}}
    \cup {Pattern(Noise, 60) \o Spike(50, 2 * HAMPEL_K, 95),
          Pattern(<<50>>, 30) \o Append(Pattern(Noise, 2 * HAMPEL_K), 95)}

FnWindows == {Pattern(p, n) : p \in FnPatterns, n \in FnLengths} \cup FnSpikes

\* what the baseline key may hold: nothing, or the result of a calibration
FnBaselines ==
    {NoObject, save_baseline_values(CalibrationReadings),
     save_baseline_values(Pattern(<<30, 70>>, 4))}

InitFn ==
    /\ \E w \in FnWindows, b \in FnBaselines, ok \in BOOLEAN :
           call = [window |-> w, base |-> b, s3ok |-> ok, thresholds |-> None,
                   mad |-> None, hampel |-> None]
    /\ store = [k \in Keys |-> NoObject]
    /\ inv = [p \in Procs |-> Idle]
    /\ bus = <<>>
    /\ arrived = <<>>
    /\ intact = TRUE
    /\ faults = 0
    /\ nread = 0
    /\ twin = NoTwin
    /\ batch = NoBatch
    /\ reg = NoReg

\* calculate_adaptive_thresholds(window), the baseline read succeeding or not
CallThresholds ==
    /\ call.thresholds = None
    /\ \E t \in {calculate_adaptive_thresholds(
                     call.window, load_baseline(call.base, call.s3ok))} :
           call' = [call EXCEPT !.thresholds = Some(t)]
    /\ UNCHANGED <<pipeline, twin, batch, reg>>

\* modified_z_score(window, thresholds['mad'])
CallModifiedZ ==
    /\ call.thresholds # None /\ call.mad = None
    /\ call.window # <<>>
    /\ \E r \in {modified_z_score(ToFixed(call.window),
                                  call.thresholds[1].mad)} :
           call' = [call EXCEPT !.mad = Some(r)]
    /\ UNCHANGED <<pipeline, twin, batch, reg>>

\* hampel_filter(window, HAMPEL_K, thresholds['hampel'])
CallHampel ==
    /\ call.thresholds # None /\ call.hampel = None
    /\ \E r \in {hampel_filter(ToFixed(call.window), HAMPEL_K,
                               call.thresholds[1].hampel)} :
           call' = [call EXCEPT !.hampel = Some(r)]
    /\ UNCHANGED <<pipeline, twin, batch, reg>>

NextFn == CallThresholds \/ CallModifiedZ \/ CallHampel

SpecFn == InitFn /\ [][NextFn]_vars

(***************************************************************************)
(* Two independent engine instances, each with a bucket of its own that    *)
(* holds no state at the start, are fed the same readings, each at its own *)
(* pace.  No read or write of either bucket fails; the event sink may.     *)
(***************************************************************************)
MaxTail == 2

Engines == {1, 2}

\* the readings that may follow the calm ones
TwinValues == {50, 95}

\* the calm readings every feed starts with
TwinPrefixes == {Pattern(<<50>>, WINDOW_SIZE \div 2 - 1),
                 Pattern(Noise, WINDOW_SIZE \div 2 - 1)}

\* one whole invocation of lambda_handler for the reading cpu on a bucket
\* whose reads and writes succeed: the bucket afterwards and the outcome
Handle(bucket, cpu, timestamp, device_id, sinkok) ==
    Bind(load_state(bucket[StateKey(device_id)], TRUE).state, LAMBDA st :
    Bind(detect_anomaly(cpu, st.cpu_history, st.ewma_cpu, st.ewmstd_cpu,
                        st.last_cpu,
                        load_baseline(bucket[BASELINE_S3_KEY], TRUE)),
         LAMBDA r :
    IF r.raised
    THEN [bucket |-> bucket, result |-> [raised |-> TRUE, report |-> None]]
    ELSE
    Bind(save_state(bucket[StateKey(device_id)], r.cpu_history, r.ewma_cpu,
                    r.ewmstd_cpu, r.last_cpu, TRUE),
         LAMBDA w :
        [bucket |-> [bucket EXCEPT ![w.key] = w.object],
         result |->
             [raised |-> FALSE,
              report |->
                  IF r.report = None THEN None
                  ELSE Some(send_to_eventbridge(r.report[1], timestamp,
                                                device_id, sinkok).report)]])))

InitTwin ==
    /\ \E prefix \in TwinPrefixes,
          base \in {NoObject, save_baseline_values(CalibrationReadings)} :
           twin = [feed |-> prefix,
                   bucket |-> [e \in Engines |->
                                 [k \in Keys |-> IF k = BASELINE_S3_KEY
                                                 THEN base ELSE NoObject]],
                   results |-> [e \in Engines |-> <<>>],
                   clock |-> 0]
    /\ store = [k \in Keys |-> NoObject]
    /\ inv = [p \in Procs |-> Idle]
    /\ bus = <<>>
    /\ arrived = <<>>
    /\ intact = TRUE
    /\ faults = 0
    /\ nread = 0
    /\ call = NoCall
    /\ batch = NoBatch
    /\ reg = NoReg

\* engine e processes its next reading: the one the feed holds at that
\* position or, when e is the first to get there, a new reading cpu
FeedTwin(e, cpu, sinkok) ==
    /\ \E n \in {Len(twin.results[e]) + 1} :
           /\ n <= WINDOW_SIZE \div 2 - 1 + MaxTail
           /\ IF n <= Len(twin.feed) THEN cpu = twin.feed[n]
                                     ELSE cpu \in TwinValues
           /\ \E h \in {Handle(twin.bucket[e], cpu, twin.clock + 1, "dev-A",
                               sinkok)} :
                  twin' = [feed |-> IF n <= Len(twin.feed) THEN twin.feed
                                    ELSE Append(twin.feed, cpu),
                           bucket |-> [twin.bucket EXCEPT ![e] = h.bucket],
                           results |-> [twin.results EXCEPT
                                            ![e] = Append(@, h.result)],
                           clock |-> twin.clock + 1]
    /\ UNCHANGED <<pipeline, call, batch, reg>>

NextTwin ==
    \E e \in Engines, cpu \in Values \cup {49}, sinkok \in BOOLEAN :
        FeedTwin(e, cpu, sinkok)

SpecTwin == InitTwin /\ [][NextTwin]_vars

(***************************************************************************)
(* The collection of the triggered detectors (detect_anomaly, lines 154 to *)
(* 156), applied to scores at, just below and just above the thresholds.   *)
(***************************************************************************)
\* windows on which none, one or both of the MAD-based detectors trigger
ScoreWindows ==
    {Pattern(Noise, WINDOW_SIZE \div 2),
     Spike(50, 2 * HAMPEL_K + 1, 95),
     Append(Pattern(Noise, 60), 95),
     Pattern(Noise, 60) \o Spike(50, 2 * HAMPEL_K, 95)}

\* a score at the threshold t, one unit below it or one unit above it
Around(t) == {t - 1, t, t + 1}

InitScore ==
    /\ \E w \in ScoreWindows :
       \E t \in {DEFAULT_THRESHOLDS, calculate_adaptive_thresholds(w, None)} :
       \E z \in Around(t.z_score), e \in Around(t.ewma_score),
          r \in Around(t.rate_of_change) :
           call = [window |-> w, thresholds |-> t,
                   scores |-> [z_score |-> z, ewma_score |-> e,
                               rate_of_change |-> r],
                   triggered |-> None]
    /\ store = [k \in Keys |-> NoObject]
    /\ inv = [p \in Procs |-> Idle]
    /\ bus = <<>>
    /\ arrived = <<>>
    /\ intact = TRUE
    /\ faults = 0
    /\ nread = 0
    /\ twin = NoTwin
    /\ batch = NoBatch
    /\ reg = NoReg

\* lines 154 to 156 of detect_anomaly
CollectTriggered ==
    /\ call.triggered = None
    /\ \E t \in {triggered_methods(call.scores, call.thresholds,
                                   call.window)} :
           call' = [call EXCEPT !.triggered = Some(t)]
    /\ UNCHANGED <<pipeline, twin, batch, reg>>

NextScore == CollectTriggered

SpecScore == InitScore /\ [][NextScore]_vars

(***************************************************************************)
(* The notifier: it receives the events of the bus and publishes those at  *)
(* or above the configured severity threshold.                             *)
(***************************************************************************)
\* the severity ranks of should_send_notification
severity_levels == [LOW |-> 1, MEDIUM |-> 2, HIGH |-> 3, CRITICAL |-> 4]

\* str.upper on the spellings that occur; a string without lower-case
\* letters is returned as it is
Upper(s) ==
    CASE s = "low" -> "LOW"
      [] s \in {"medium", "Medium"} -> "MEDIUM"
      [] s = "high" -> "HIGH"
      [] s = "critical" -> "CRITICAL"
      [] s = "warning" -> "WARNING"
      [] s = "none" -> "NONE"
      [] OTHER -> s

\* dict.get(key, default)
DictGet(d, key, default) == IF key \in DOMAIN d THEN d[key] ELSE default

\* should_send_notification with HIGH as the rank of an unknown threshold
should_send_notification_DefaultHigh(severity, threshold) ==
    DictGet(severity_levels, Upper(severity), 0)
        >= DictGet(severity_levels, Upper(threshold), 3)

should_send_notification(severity, threshold) ==
    DictGet(severity_levels, Upper(severity), 0)
        >= DictGet(severity_levels, Upper(threshold), 2)

\* the default of the environment variable NOTIFICATION_THRESHOLD
NOTIFICATION_THRESHOLD == "MEDIUM"

\* the values the environment may give NOTIFICATION_THRESHOLD
ThresholdSettings ==
    {NOTIFICATION_THRESHOLD, "medium", "LOW", "low", "HIGH", "CRITICAL",
     "critical", "WARNING", "none", ""}

\* the severity strings of events that other producers put on the bus
ForeignSeverities ==
    {"LOW", "low", "MEDIUM", "Medium", "HIGH", "high", "CRITICAL", "warning",
     "UNKNOWN", ""}

\* the method counts and z-scores of the reports of the detection engine
EngineCounts == 2..5

EngineZScores == {0, 3000, 3750, 3751, 5000, 5001, 9000}

EngineZThresholds == {2000, 2500, 3000}

\* an event of the bus as the notifier receives it
NotifierEvent(origin, count, z, zthr, severity, device_id) ==
    [detail_type |-> IF origin = "registry" THEN "DeviceRegistered"
                     ELSE "AnomalyDetected",
     origin |-> origin, method_count |-> count, z_score |-> z,
     z_threshold |-> zthr, severity |-> severity, device_id |-> device_id]

InitNotify ==
    /\ \E threshold \in ThresholdSettings, device_id \in {None, Some("dev-A")} :
       \E e \in {NotifierEvent("engine", n, z, t,
                               Some(determine_severity(
                                        n, [z_score |-> z], [z_score |-> t])),
                               device_id) :
                     n \in EngineCounts, z \in EngineZScores,
                     t \in EngineZThresholds}
                \cup {NotifierEvent("other", 0, 0, 0, sev, device_id) :
                          sev \in {None} \cup {Some(x) : x \in ForeignSeverities}}
                \cup {NotifierEvent("registry", 0, 0, 0, None, device_id)} :
           call = [event |-> e, threshold |-> threshold, decision |-> None,
                   response |-> None]
    /\ store = [k \in Keys |-> NoObject]
    /\ inv = [p \in Procs |-> Idle]
    /\ bus = <<>>
    /\ arrived = <<>>
    /\ intact = TRUE
    /\ faults = 0
    /\ nread = 0
    /\ twin = NoTwin
    /\ batch = NoBatch
    /\ reg = NoReg

\* lambda_handler of the notifier on an event of the bus; snsok is the outcome
\* of sns.publish
Notify(snsok) ==
    /\ call.response = None
    /\ \E severity \in {IF call.event.severity = None THEN "UNKNOWN"
                        ELSE call.event.severity[1]} :
           IF call.event.detail_type # "AnomalyDetected"
           THEN call' = [call EXCEPT !.response = Some("200 ignored")]
           ELSE IF call.event.device_id = None
           THEN call' = [call EXCEPT !.response = Some("400 missing device_id")]
           ELSE \E send \in {should_send_notification(severity,
                                                      call.threshold)} :
                    call' = [call EXCEPT
                               !.decision = Some(send),
                               !.response =
                                   Some(IF ~send THEN "200 skipped"
                                        ELSE IF snsok THEN "200 sent"
                                        ELSE "500 error")]
    /\ UNCHANGED <<pipeline, twin, batch, reg>>

NextNotify == \E snsok \in BOOLEAN : Notify(snsok)

SpecNotify == InitNotify /\ [][NextNotify]_vars

(***************************************************************************)
(* Product registration: requests are handled by independently scheduled   *)
(* handler instances on one registry table; a handler reads the table and  *)
(* later writes it, and other handlers may run in between.                 *)
(***************************************************************************)
Requests == {1, 2}

Barcodes == {"bc-1", "bc-2"}

ProductNames == {"kettle", "lamp"}

\* what a request carries: a complete body, a body with an empty required
\* field, no body, a body that is not JSON, or the CORS preflight
RequestKinds == {"valid", "missing-field", "no-body", "bad-json", "options"}

NoRequest ==
    [pc |-> "none", kind |-> "", barcode |-> "", productname |-> "",
     statusCode |-> 0, error |-> "", status_initialized |-> FALSE,
     s3_file_created |-> FALSE]

\* validate_required_fields: is_valid
validate_required_fields(req) == req.kind = "valid"

\* the registry_record of lines 205 to 218
registry_record(req) ==
    [barcode |-> req.barcode, device_id |-> req.barcode,
     productName |-> req.productname, status |-> "active"]

InitReg ==
    /\ reg = [table |-> [b \in Barcodes |-> None],
              puts |-> [b \in Barcodes |-> 0],
              status_table |-> {},
              files |-> {},
              req |-> [r \in Requests |-> NoRequest]]
    /\ store = [k \in Keys |-> NoObject]
    /\ inv = [p \in Procs |-> Idle]
    /\ bus = <<>>
    /\ arrived = <<>>
    /\ intact = TRUE
    /\ faults = 0
    /\ nread = 0
    /\ call = NoCall
    /\ twin = NoTwin
    /\ batch = NoBatch

Answer(req, code, error) ==
    [req EXCEPT !.pc = "answered", !.statusCode = code, !.error = error]

\* lambda_handler from its start to the answer of get_item (lines 148 to
\* 199); dbok is the outcome of get_item
CheckExisting(r, kind, barcode, productname, dbok) ==
    /\ reg.req[r].pc = "none"
    /\ \E req \in {[NoRequest EXCEPT !.kind = kind, !.barcode = barcode,
                                     !.productname = productname]} :
           reg' = [reg EXCEPT !.req[r] =
                     IF kind = "options" THEN Answer(req, 200, "")
                     ELSE IF kind = "no-body"
                     THEN Answer(req, 400, "Missing request body")
                     ELSE IF kind = "bad-json"
                     THEN Answer(req, 400, "Invalid JSON in request body")
                     ELSE IF ~validate_required_fields(req)
                     THEN Answer(req, 400, "Missing fields")
                     ELSE IF ~dbok
                     THEN Answer(req, 500, "Internal server error")
                     ELSE IF reg.table[barcode] # None
                     THEN Answer(req, 409, "Device already registered")
                     ELSE [req EXCEPT !.pc = "checked"]]
    /\ UNCHANGED <<pipeline, call, twin, batch>>

\* registry_table.put_item(Item=registry_record)
PutItem(table, record) == [table EXCEPT ![record.barcode] = Some(record)]

\* lambda_handler from put_item to its answer (lines 226 to 259); dbok,
\* statusok and s3ok are the outcomes of the registry put, of
\* initialize_device_status and of create_device_data_file
Register(r, dbok, statusok, s3ok) ==
    /\ reg.req[r].pc = "checked"
    /\ \E req \in {reg.req[r]} :
           IF ~dbok
           THEN reg' = [reg EXCEPT
                          !.req[r] = Answer(req, 500,
                                            "Registration failed - database error")]
           ELSE reg' = [reg EXCEPT
                          !.table = PutItem(@, registry_record(req)),
                          !.puts[req.barcode] = @ + 1,
                          !.status_table =
                              IF statusok THEN @ \cup {req.barcode} ELSE @,
                          !.files = IF s3ok THEN @ \cup {req.barcode} ELSE @,
                          !.req[r] =
                              [Answer(req, 201, "") EXCEPT
                                   !.status_initialized = statusok,
                                   !.s3_file_created = s3ok]]
    /\ UNCHANGED <<pipeline, call, twin, batch>>

NextReg ==
    \/ \E r \in Requests, kind \in RequestKinds, barcode \in Barcodes,
          productname \in ProductNames, dbok \in BOOLEAN :
           CheckExisting(r, kind, barcode, productname, dbok)
    \/ \E r \in Requests, dbok \in BOOLEAN, statusok \in BOOLEAN,
          s3ok \in BOOLEAN :
           Register(r, dbok, statusok, s3ok)

SpecReg == InitReg /\ [][NextReg]_vars

(***************************************************************************)
(* One invocation that processes several records: the deque returned by    *)
(* load_state is appended to in place by every call of detect_anomaly,     *)
(* while the reports of earlier records are still held.  Lists are objects *)
(* of a heap, and a report holds a reference to its cpu_window.            *)
(***************************************************************************)
\* the number of records of one invocation
MaxBatch == 3

BatchValues == {50, 95}

\* reading histories the loaded state results from
BatchSeeds ==
    {Pattern(Noise, WINDOW_SIZE \div 2 - 1), Pattern(Noise, 60),
     Pattern(Noise, WINDOW_SIZE - 1)}

\* the deque is the first object of the heap
DequeRef == 1

\* a second name for the object id instead of a new list
ListCopy_Alias(heap, id) == [heap |-> heap, ref |-> id]

\* list(x): a new object with the elements of object id
ListCopy(heap, id) == [heap |-> Append(heap, heap[id]), ref |-> Len(heap) + 1]

\* the invocation starts: load_state returns the deque and smoothing state
InitBatch ==
    /\ \E seed \in BatchSeeds :
       \E st \in {RunFrom(ColdState, seed)} :
           /\ store = [k \in Keys |->
                         IF k = BASELINE_S3_KEY THEN NoObject ELSE st]
           /\ batch = [pc |-> "running",
                       heap |-> <<load_state(st, TRUE).state.cpu_history>>,
                       ewma_cpu |-> st.ewma_cpu,
                       ewmstd_cpu |-> st.ewmstd_cpu,
                       last_cpu |-> st.last_cpu,
                       reports |-> <<>>,
                       sent |-> <<>>,
                       records_processed |-> 0]
    /\ inv = [p \in Procs |-> Idle]
    /\ bus = <<>>
    /\ arrived = <<>>
    /\ intact = TRUE
    /\ faults = 0
    /\ nread = 0
    /\ call = NoCall
    /\ twin = NoTwin
    /\ reg = NoReg

\* detect_anomaly on the next record: the deque is appended to in place, and
\* a report refers to the list made of it at line 139
DetectRecord(cpu) ==
    /\ batch.pc = "running"
    /\ batch.records_processed < MaxBatch
    /\ \E r \in {detect_anomaly(cpu, batch.heap[DequeRef], batch.ewma_cpu,
                                batch.ewmstd_cpu, batch.last_cpu,
                                load_baseline(store[BASELINE_S3_KEY], TRUE))} :
       \E appended \in {[batch.heap EXCEPT ![DequeRef] = r.cpu_history]} :
       \E c \in {ListCopy(appended, DequeRef)} :
           batch' =
               IF r.raised
               THEN [batch EXCEPT !.pc = "crashed", !.heap = appended]
               ELSE [batch EXCEPT
                       !.pc = IF r.report = None THEN "running"
                              ELSE "publishing",
                       !.heap = IF r.report = None THEN appended ELSE c.heap,
                       !.ewma_cpu = r.ewma_cpu,
                       !.ewmstd_cpu = r.ewmstd_cpu,
                       !.last_cpu = r.last_cpu,
                       !.reports =
                           IF r.report = None THEN @
                           ELSE Append(@, [r.report[1] EXCEPT
                                               !.cpu_window = c.ref]),
                       !.records_processed = @ + 1]
    /\ UNCHANGED <<pipeline, call, twin, reg>>

\* send_to_eventbridge on the report of the record just processed; the
\* event carries the window as json.dumps finds it
PublishRecord(sinkok) ==
    /\ batch.pc = "publishing"
    /\ \E n \in {Len(batch.reports)} :
       \E s \in {send_to_eventbridge(batch.reports[n],
                                     batch.records_processed, "dev-A",
                                     sinkok)} :
           /\ batch' = [batch EXCEPT !.pc = "running",
                                     !.reports[n] = s.report,
                                     !.sent = Append(@, s.returned)]
           /\ bus' = IF s.event = None THEN bus
                     ELSE Append(bus,
                                 [s.event[1] EXCEPT !.detail.cpu_window =
                                      batch.heap[batch.reports[n].cpu_window]])
    /\ UNCHANGED <<store, inv, arrived, intact, faults, nread, call, twin,
                   reg>>

\* the invocation ends: the window and smoothing state are saved
EndBatch(s3ok) ==
    /\ batch.pc = "running"
    /\ batch.records_processed > 0
    /\ \E w \in {save_state(store[S3_KEY], batch.heap[DequeRef],
                            batch.ewma_cpu, batch.ewmstd_cpu, batch.last_cpu,
                            s3ok)} :
           /\ store' = [store EXCEPT ![w.key] = w.object]
           /\ batch' = [batch EXCEPT !.pc = "ended"]
    /\ UNCHANGED <<inv, bus, arrived, intact, faults, nread, call, twin, reg>>

NextBatch ==
    \/ \E cpu \in BatchValues : DetectRecord(cpu)
    \/ \E sinkok \in BOOLEAN : PublishRecord(sinkok)
    \/ \E s3ok \in BOOLEAN : EndBatch(s3ok)

SpecBatch == InitBatch /\ [][NextBatch]_vars

(***************************************************************************)
(* Properties.                                                             *)
(***************************************************************************)
\* detect_anomaly has returned in the invocation of handler instance p
Returned(p) == inv[p].pc \in {"detected", "saved", "done"}

\* the window and smoothing state in the hands of handler instance p
StateOf(p) ==
    [cpu_history |-> inv[p].cpu_history, ewma_cpu |-> inv[p].ewma_cpu,
     ewmstd_cpu |-> inv[p].ewmstd_cpu, last_cpu |-> inv[p].last_cpu]

\* the values of the processed readings of device d, in arrival order
ReadingsOf(d) ==
    LET own == SelectSeq(arrived, LAMBDA r : r.device = d)
    IN  [i \in 1..Len(own) |-> own[i].cpu]

\* the values of all processed readings, in arrival order
AllReadings == [i \in 1..Len(arrived) |-> arrived[i].cpu]

\* the last min(Len(s), n) elements of s, in order
LastN(s, n) ==
    LET m == Min2(Len(s), n)
    IN  [i \in 1..m |-> s[Len(s) - m + i]]

\* handler instance p is processing, or has processed, the newest reading
Newest(p) == inv[p].pc # "idle" /\ inv[p].timestamp = nread

Quiescent == \A p \in Procs : inv[p].pc \in {"idle", "done", "crashed"}

\* C1: per-device isolation.  As long as no read or write of the store has
\* failed, the window an invocation loads to score a reading of device d holds
\* the most recent readings of d and nothing else: readings of another device
\* never reach it.
C1_PerDeviceIsolation ==
    \A p \in Procs :
        (intact /\ inv[p].pc = "loaded")
            => inv[p].cpu_history
               = LastN(ReadingsOf(inv[p].device), WINDOW_SIZE)

\* C2: detect_anomaly never raises, in particular not on a window whose
\* standard deviation is 0: no invocation ends in an exception of
\* detect_anomaly.
C2_DetectNeverRaises ==
    \A p \in Procs : inv[p].raisedBy # "detect_anomaly"

\* C3: decision rule.  For every reading scored in the ACTIVE state a report
\* is returned if and only if at least 2 of the five detectors triggered, and
\* every report, returned or published, has method_count >= 2.
C3_DecisionRule ==
    /\ \A p \in Procs :
           (Returned(p) /\ inv[p].path = "ACTIVE")
               => /\ (inv[p].report # None) <=> (Len(inv[p].triggered) >= 2)
                  /\ inv[p].report # None
                         => /\ inv[p].report[1].method_count >= 2
                            /\ inv[p].report[1].methods_triggered
                               = inv[p].triggered
    /\ \A i \in 1..Len(bus) : bus[i].detail.method_count >= 2

\* C3 witness: an ACTIVE reading with exactly 2 triggered detectors, reported
C3_Witness ==
    \E p \in Procs :
        /\ Returned(p) /\ inv[p].path = "ACTIVE"
        /\ Len(inv[p].triggered) = 2
        /\ inv[p].report # None

\* an ACTIVE reading with exactly 1 triggered detector, not reported
C3_WitnessBelow ==
    \E p \in Procs :
        /\ Returned(p) /\ inv[p].path = "ACTIVE"
        /\ Len(inv[p].triggered) = 1
        /\ inv[p].report = None

\* the severity the classification rule gives to count triggers and score z
\* under z threshold t
SeverityRule(count, z, t) ==
    IF count >= 4 \/ z > 2 * t THEN "CRITICAL"
    ELSE IF count >= 3 \/ 2 * z > 3 * t THEN "HIGH"
    ELSE "MEDIUM"

\* C4: severity classification.  Every report carries CRITICAL if 4 or more
\* detectors triggered or z_score > 2 x the z threshold, else HIGH if 3
\* triggered or z_score > 1.5 x the z threshold, else MEDIUM; never anything
\* else.
C4_Severity ==
    \A p \in Procs :
        (Returned(p) /\ inv[p].report # None)
            => /\ inv[p].report[1].severity
                  = SeverityRule(Len(inv[p].triggered),
                                 inv[p].report[1].z_score,
                                 inv[p].thresholds[1].z_score)
               /\ inv[p].report[1].severity \in {"CRITICAL", "HIGH", "MEDIUM"}

\* C4 witness: exactly 4 triggers with z_score not above 2 x threshold,
\* classified CRITICAL
C4_Witness ==
    \E p \in Procs :
        /\ Returned(p) /\ inv[p].report # None
        /\ Len(inv[p].triggered) = 4
        /\ inv[p].report[1].z_score <= 2 * inv[p].thresholds[1].z_score
        /\ inv[p].report[1].severity = "CRITICAL"

\* C5: rolling window.  No window ever holds more than 100 readings, and as
\* long as no read or write of the store has failed, the window after n
\* processed readings holds exactly the most recent min(n, 100) of them in
\* arrival order, in the handler's hands and, once saved, in the store.
C5_RollingWindow ==
    /\ \A p \in Procs : Len(inv[p].cpu_history) <= WINDOW_SIZE
    /\ \A p \in Procs :
           (intact /\ Returned(p) /\ Newest(p))
               => inv[p].cpu_history = LastN(AllReadings, WINDOW_SIZE)
    /\ (intact /\ Quiescent /\ arrived # <<>>)
           => /\ store[S3_KEY].cpu_history = LastN(AllReadings, WINDOW_SIZE)
              /\ Len(store[S3_KEY].cpu_history)
                 = Min2(Len(arrived), WINDOW_SIZE)

\* C5 witness: 101 readings processed; the stored window holds readings 2..101
C5_Witness ==
    /\ intact /\ Quiescent
    /\ Len(arrived) = WINDOW_SIZE + 1
    /\ Len(store[S3_KEY].cpu_history) = WINDOW_SIZE
    /\ store[S3_KEY].cpu_history[1] = arrived[2].cpu
    /\ store[S3_KEY].cpu_history[WINDOW_SIZE] = arrived[WINDOW_SIZE + 1].cpu

\* C6: warm-up.  Whenever the window after the append holds fewer than 50
\* readings, detect_anomaly returns no report, the reading is appended to the
\* loaded window, and ewma and ewmstd are returned as they were loaded.
C6_WarmUp ==
    \A p \in Procs :
        (inv[p].path # ""
         /\ Len(inv[p].loaded[1].cpu_history) + 1 < WINDOW_SIZE \div 2)
            => /\ Returned(p)
               /\ inv[p].report = None
               /\ inv[p].cpu_history
                  = Append(inv[p].loaded[1].cpu_history, inv[p].cpu)
               /\ inv[p].ewma_cpu = inv[p].loaded[1].ewma_cpu
               /\ inv[p].ewmstd_cpu = inv[p].loaded[1].ewmstd_cpu

\* C6 witness: the outlier 95 arrives as 49th reading while a baseline exists
C6_Witness ==
    \E p \in Procs :
        /\ Returned(p)
        /\ Len(inv[p].cpu_history) = WINDOW_SIZE \div 2 - 1
        /\ inv[p].cpu = 95
        /\ store[BASELINE_S3_KEY] # NoObject
        /\ inv[p].report = None

\* C7: warm-up boundary.  As long as no read or write of the store has failed,
\* readings 1 to 49 are processed on the WARMING_UP path and the 50th and
\* later ones on the ACTIVE path.
C7_Boundary ==
    \A p \in Procs :
        (intact /\ Returned(p) /\ Newest(p))
            => inv[p].path = IF Len(arrived) < WINDOW_SIZE \div 2
                             THEN "WARMING_UP" ELSE "ACTIVE"

\* C7 witness: the 50th reading, processed on the ACTIVE path
C7_Witness ==
    \E p \in Procs :
        /\ intact /\ Returned(p) /\ Newest(p)
        /\ Len(arrived) = WINDOW_SIZE \div 2
        /\ inv[p].path = "ACTIVE"

\* the 49th reading, processed on the WARMING_UP path
C7_WitnessBelow ==
    \E p \in Procs :
        /\ intact /\ Returned(p) /\ Newest(p)
        /\ Len(arrived) = WINDOW_SIZE \div 2 - 1
        /\ inv[p].path = "WARMING_UP"

\* C8: persistence regardless of outcome.  Every invocation in which
\* detect_anomaly returned, with or without a report, in warm-up or not, goes
\* on to save_state; once the store has accepted the write, it holds the
\* window and smoothing state the invocation computed, and a load returns
\* exactly that state.
C8_Persistence ==
    \A p \in Procs :
        /\ inv[p].pc \in {"saved", "done"} => inv[p].persisted # None
        /\ (inv[p].pc \in {"saved", "done"} /\ Newest(p)
            /\ inv[p].persisted = Some(TRUE))
               => /\ store[StateKey(inv[p].device)] = StateOf(p)
                  /\ load_state(store[StateKey(inv[p].device)], TRUE).state
                     = StateOf(p)

\* C8 witness: an invocation that produced a report has finished and the
\* store holds its state
C8_Witness ==
    \E p \in Procs :
        /\ inv[p].pc = "done" /\ Newest(p)
        /\ inv[p].report # None
        /\ inv[p].persisted = Some(TRUE)
        /\ store[S3_KEY] = StateOf(p)

\* an invocation in warm-up has finished and the store holds its state
C8_WitnessWarm ==
    \E p \in Procs :
        /\ inv[p].pc = "done" /\ Newest(p)
        /\ inv[p].path = "WARMING_UP"
        /\ inv[p].persisted = Some(TRUE)
        /\ store[S3_KEY] = StateOf(p)

\* C9: store failures degrade to a cold start.  Neither load_state nor
\* save_state ever raises; when the read of the state fails (missing key,
\* bytes that do not unpickle, S3 unreachable) the invocation starts with an
\* empty window, no ewma and no last value; and an invocation whose write
\* failed still goes on.
C9_StoreFailure ==
    \A p \in Procs :
        /\ inv[p].raisedBy \notin {"load_state", "save_state"}
        /\ (inv[p].pc # "idle" /\ inv[p].loadOutcome # "ok")
               => /\ inv[p].loaded # None
                  /\ inv[p].loaded[1].cpu_history = <<>>
                  /\ inv[p].loaded[1].ewma_cpu = None
                  /\ inv[p].loaded[1].last_cpu = None
        /\ inv[p].persisted = Some(FALSE) => inv[p].pc \in {"saved", "done"}

\* C9 witness: S3 was unreachable at the load although a state was stored,
\* and the invocation has finished
C9_Witness ==
    \E p \in Procs :
        /\ inv[p].loadOutcome = "ClientError"
        /\ Len(arrived) > 1
        /\ inv[p].loaded[1].cpu_history = <<>>
        /\ inv[p].cpu_history = <<inv[p].cpu>>
        /\ inv[p].pc = "done"

\* the stored bytes did not unpickle
C9_WitnessUnpickle ==
    \E p \in Procs : inv[p].loadOutcome = "UnpicklingError" /\ inv[p].pc = "done"

\* the write failed and the invocation has finished
C9_WitnessSave ==
    \E p \in Procs : inv[p].persisted = Some(FALSE) /\ inv[p].pc = "done"

\* C10: sink failure is swallowed.  The step that hands a report to the event
\* sink always ends the invocation normally, with send_to_eventbridge's
\* result a boolean; it leaves the report, the window and smoothing state and
\* the store as they were, and on failure puts nothing on the bus.
C10_SinkFailureSwallowed ==
    [][\A p \in Procs :
           (inv[p].pc = "saved" /\ inv'[p].pc # "saved")
               => /\ inv'[p].pc = "done"
                  /\ inv'[p].sent \in {Some(TRUE), Some(FALSE)}
                  /\ inv'[p].report = inv[p].report
                  /\ StateOf(p)' = StateOf(p)
                  /\ store' = store
                  /\ inv'[p].sent = Some(FALSE) => bus' = bus]_vars

\* C10 witness: the publish failed; the invocation is done with its report,
\* and the store holds the state it computed
C10_Witness ==
    \E p \in Procs :
        /\ inv[p].pc = "done"
        /\ inv[p].sent = Some(FALSE)
        /\ inv[p].report # None
        /\ inv[p].persisted = Some(TRUE)
        /\ store[S3_KEY] = StateOf(p)

\* the baseline the calculator has read in the current call: the object under
\* the baseline key when the read succeeded
BaselineRead == call.base # NoObject /\ call.s3ok

\* C11: baseline override.  Whenever the calculator has read a baseline, it
\* returns exactly the baseline's five pinned thresholds, whatever the window
\* holds and however long it is, shorter than 50 included.
C11_BaselineOverride ==
    (call.thresholds # None /\ BaselineRead)
        => call.thresholds[1]
           = [z_score |-> call.base.z_score_threshold,
              ewma_score |-> call.base.ewma_score_threshold,
              rate_of_change |-> call.base.rate_of_change_threshold,
              mad |-> call.base.mad_threshold,
              hampel |-> call.base.hampel_threshold]

\* C11 witness: a window of 49 wide-spread readings under a baseline; the
\* pinned thresholds are returned, not the defaults
C11_Witness ==
    /\ call.thresholds # None /\ BaselineRead
    /\ Len(call.window) = WINDOW_SIZE \div 2 - 1
    /\ call.window[1] # call.window[2]
    /\ call.thresholds[1].z_score = call.base.z_score_threshold
    /\ call.thresholds[1] # DEFAULT_THRESHOLDS

\* a window of 100 readings under a baseline: the pinned thresholds, not the
\* adaptive ones
C11_WitnessLong ==
    /\ call.thresholds # None /\ BaselineRead
    /\ Len(call.window) = WINDOW_SIZE
    /\ call.thresholds[1].z_score = call.base.z_score_threshold
    /\ call.thresholds[1]
       # calculate_adaptive_thresholds(call.window, None)

\* C12: default thresholds during warm-up.  With no baseline read, the
\* calculator returns z_score 2.5, ewma_score 2.0, rate_of_change 20.0,
\* mad 3.5, hampel 3.0 for every window shorter than 50, whatever it holds.
C12_WarmUpDefaults ==
    (call.thresholds # None /\ ~BaselineRead
     /\ Len(call.window) < 50)
        => call.thresholds[1]
           = [z_score |-> 2500, ewma_score |-> 2000, rate_of_change |-> 20000,
              mad |-> 3500, hampel |-> 3000]

\* C12 witness: 49 wide-spread readings and no baseline; the defaults are
\* returned although the adaptive formulas give other values
C12_Witness ==
    /\ call.thresholds # None /\ call.base = NoObject
    /\ Len(call.window) = 49
    /\ call.thresholds[1].z_score = 2500
    /\ call.thresholds[1].rate_of_change = 20000
    /\ DerivedThresholds(mean(call.window), stdev(call.window))
       # call.thresholds[1]

\* C13: clamp bounds.  With no baseline read and a window of 50 or more
\* readings, of any mean and any standard deviation, each computed threshold
\* lies within its range: z_score in [2.0, 3.0], ewma_score in [1.5, 2.5],
\* rate_of_change in [15.0, 25.0], mad in [3.0, 4.0], hampel in [2.5, 3.5].
C13_ClampBounds ==
    (call.thresholds # None /\ ~BaselineRead
     /\ Len(call.window) >= 50)
        => /\ 2000 <= call.thresholds[1].z_score
           /\ call.thresholds[1].z_score <= 3000
           /\ 1500 <= call.thresholds[1].ewma_score
           /\ call.thresholds[1].ewma_score <= 2500
           /\ 15000 <= call.thresholds[1].rate_of_change
           /\ call.thresholds[1].rate_of_change <= 25000
           /\ 3000 <= call.thresholds[1].mad
           /\ call.thresholds[1].mad <= 4000
           /\ 2500 <= call.thresholds[1].hampel
           /\ call.thresholds[1].hampel <= 3500

\* C13 witness: 50 or more readings of negative mean; z_score sits on the
\* lower bound of its range and ewma_score takes its fallback
C13_Witness ==
    /\ call.thresholds # None /\ ~BaselineRead
    /\ Len(call.window) >= 50
    /\ mean(call.window) < 0 /\ stdev(call.window) > 0
    /\ call.thresholds[1].z_score = 2000
    /\ call.thresholds[1].ewma_score = 2000
    /\ call.thresholds[1].rate_of_change > 15000

\* 100 identical readings of 0: mean 0 and standard deviation 0
C13_WitnessZero ==
    /\ call.thresholds # None /\ ~BaselineRead
    /\ Len(call.window) = WINDOW_SIZE
    /\ mean(call.window) = 0 /\ stdev(call.window) = 0
    /\ call.thresholds[1]
       = [z_score |-> 2500, ewma_score |-> 2000, rate_of_change |-> 15000,
          mad |-> 3500, hampel |-> 3000]

\* every threshold strictly inside its range for some window
C13_WitnessInside ==
    /\ call.thresholds # None /\ ~BaselineRead
    /\ Len(call.window) >= 50
    /\ call.thresholds[1].z_score \in 2001..2999
    /\ call.thresholds[1].mad \in 3001..3999
    /\ call.thresholds[1].hampel \in 2501..3499

\* the window of the current call is k >= 15 identical values followed by one
\* value that differs from them
IdenticalThenOutlier ==
    /\ Len(call.window) >= 16
    /\ \A i \in 1..(Len(call.window) - 1) : call.window[i] = call.window[1]
    /\ call.window[Len(call.window)] # call.window[1]

\* the MAD of a sequence of fixed-point numbers
Mad(data) == MadOf(data, median(data))

\* the 14 values that precede the last one
Trailing14(data) == SubSeq(data, Len(data) - 14, Len(data) - 1)

\* C15: zero-MAD abstention.  modified_z_score returns False whenever the MAD
\* of the window is 0, hampel_filter returns False whenever the MAD of the 14
\* values before the newest one is 0, and on k >= 15 identical values followed
\* by one outlier both return False.
C15_ZeroMadAbstention ==
    /\ (call.mad # None /\ Mad(ToFixed(call.window)) = 0)
           => call.mad = Some(FALSE)
    /\ (call.hampel # None /\ Len(call.window) >= 15
        /\ Mad(Trailing14(ToFixed(call.window))) = 0)
           => call.hampel = Some(FALSE)
    /\ IdenticalThenOutlier
           => /\ call.mad \in {None, Some(FALSE)}
              /\ call.hampel \in {None, Some(FALSE)}

\* C15 witness: 15 readings of 50 followed by 95; both detectors have run and
\* neither triggered
C15_Witness ==
    /\ IdenticalThenOutlier
    /\ Len(call.window) = 16
    /\ call.window[16] = 95
    /\ call.mad = Some(FALSE)
    /\ call.hampel = Some(FALSE)

\* the window as a whole has a non-zero MAD and modified_z_score triggers,
\* while the 14 values before the outlier are identical and hampel_filter
\* abstains
C15_WitnessHampelOnly ==
    /\ call.mad = Some(TRUE)
    /\ call.hampel = Some(FALSE)
    /\ Mad(Trailing14(ToFixed(call.window))) = 0

\* both MADs are non-zero and both detectors trigger
C15_WitnessBoth ==
    /\ call.mad = Some(TRUE)
    /\ call.hampel = Some(TRUE)

Has(s, m) == \E i \in 1..Len(s) : s[i] = m

\* handler instance p has called detect_anomaly for the reading 95 on a loaded
\* window of 60 readings, all within 50 +/- 1, with no baseline stored
CalmThenSpike(p) ==
    /\ inv[p].path # ""
    /\ inv[p].loadOutcome = "ok"
    /\ Len(inv[p].loaded[1].cpu_history) = 60
    /\ \A i \in 1..60 : inv[p].loaded[1].cpu_history[i] \in 49..51
    /\ inv[p].cpu = 95
    /\ store[BASELINE_S3_KEY] = NoObject

\* C16: end-to-end scenario.  On a window of 60 readings within 50 +/- 1 and
\* no baseline, the reading 95 makes z_score, ewma_score and rate_of_change
\* each exceed their thresholds, and a report is returned with severity HIGH
\* or CRITICAL whose methods_triggered holds z_score and rate_of_change.
C16_CalmThenSpike ==
    \A p \in Procs :
        CalmThenSpike(p)
            => /\ Returned(p)
               /\ \A i \in 1..Len(Methods) :
                      inv[p].scores[1][Methods[i]]
                          > inv[p].thresholds[1][Methods[i]]
               /\ inv[p].report # None
               /\ inv[p].report[1].severity \in {"HIGH", "CRITICAL"}
               /\ Has(inv[p].report[1].methods_triggered, "z_score")
               /\ Has(inv[p].report[1].methods_triggered, "rate_of_change")
               /\ Has(inv[p].report[1].methods_triggered, "ewma_score")

\* C16 witness: the scenario has run and its report has been handed to the
\* event bus
C16_Witness ==
    \E p \in Procs :
        /\ CalmThenSpike(p)
        /\ inv[p].pc = "done"
        /\ inv[p].report # None
        /\ inv[p].report[1].value = 95
        /\ inv[p].report[1].rate_of_change >= 44 * SCALE
        /\ Len(inv[p].report[1].cpu_window) = 61
        /\ inv[p].sent = Some(TRUE)

\* the step is the save of handler instance p, and S3 accepts the put
SavesNow(p) ==
    /\ inv[p].pc = "detected"
    /\ inv'[p].pc \in {"saved", "done"}
    /\ inv'[p].persisted = Some(TRUE)

\* handler instance q has saved the state the bucket holds, and it had loaded
\* the same state as p, for the same device
SavedAhead(q, p) ==
    /\ inv[q].pc \in {"saved", "done"}
    /\ inv[q].persisted = Some(TRUE)
    /\ inv[q].device = inv[p].device
    /\ inv[q].loaded = inv[p].loaded
    /\ inv[q].loadOutcome = "ok"
    /\ store[S3_KEY] = StateOf(q)

\* C17: last writer wins.  The put of save_state is unconditional: whatever
\* the bucket holds, an accepted save leaves it holding exactly the state the
\* saving invocation computed.  When two invocations for the same device
\* loaded the same state and both saved, the bucket holds the state of the one
\* that saved last: the window both loaded plus the last saver's reading, the
\* other reading missing.
C17_LastWriterWins ==
    [][\A p \in Procs :
           SavesNow(p)
               => /\ store'[S3_KEY] = StateOf(p)
                  /\ \A q \in Procs \ {p} :
                         SavedAhead(q, p)
                             => /\ store'[S3_KEY].cpu_history
                                   = Deque(Append(inv[p].loaded[1].cpu_history,
                                                  inv[p].cpu), WINDOW_SIZE)
                                /\ Len(store'[S3_KEY].cpu_history)
                                   <= Len(inv[p].loaded[1].cpu_history) + 1]_vars

\* C17 witness: a lost update.  Both invocations loaded the same window of
\* the same device and both saves were accepted; the bucket holds the state
\* of instance 1, and the reading 95 that instance 2 processed and saved is
\* not in the stored window
C17_Witness ==
    /\ inv[1].pc = "done" /\ inv[2].pc = "done"
    /\ inv[1].persisted = Some(TRUE) /\ inv[2].persisted = Some(TRUE)
    /\ inv[1].device = inv[2].device
    /\ inv[1].loadOutcome = "ok"
    /\ inv[1].loaded = inv[2].loaded
    /\ inv[2].cpu = 95 /\ inv[1].cpu = 51
    /\ store[S3_KEY] = StateOf(1)
    /\ store[S3_KEY] # StateOf(2)
    /\ \A i \in 1..Len(store[S3_KEY].cpu_history) :
           store[S3_KEY].cpu_history[i] # 95
    /\ Len(arrived) = Len(inv[1].loaded[1].cpu_history) + 2
    /\ Len(store[S3_KEY].cpu_history)
       = Len(inv[1].loaded[1].cpu_history) + 1

\* C18: the baseline is read-only to the detection path.  No step of an
\* invocation (load_state, detect_anomaly with calculate_adaptive_thresholds,
\* save_state, send_to_eventbridge) creates, changes or deletes the object
\* under the baseline key: it stays what the calibration step left there.
C18_BaselineReadOnly ==
    [][store'[BASELINE_S3_KEY] = store[BASELINE_S3_KEY]]_vars

\* C18 witness: under a calibrated baseline an invocation has loaded, scored
\* with the pinned thresholds, saved its state and published a report; the
\* baseline key still holds what save_baseline_values wrote, and the state
\* key holds the new state
C18_Witness ==
    \E p \in Procs :
        /\ inv[p].pc = "done"
        /\ inv[p].report # None
        /\ inv[p].sent = Some(TRUE)
        /\ inv[p].persisted = Some(TRUE)
        /\ store[S3_KEY] = StateOf(p)
        /\ store[BASELINE_S3_KEY] = save_baseline_values(CalibrationReadings)
        /\ inv[p].thresholds[1].z_score
           = store[BASELINE_S3_KEY].z_score_threshold

\* no baseline is stored, and a finished invocation has not created one
C18_WitnessAbsent ==
    \E p \in Procs :
        /\ inv[p].pc = "done"
        /\ inv[p].path = "ACTIVE"
        /\ inv[p].persisted = Some(TRUE)
        /\ store[BASELINE_S3_KEY] = NoObject

\* handler instance p has scored its reading on the ACTIVE path and
\* detect_anomaly has returned
ScoredActive(p) == Returned(p) /\ inv[p].path = "ACTIVE"

\* the fixed-point numbers a and b agree up to rounding in the last place
Near(a, b) == Abs(a - b) <= 1

\* C19: EWMA update.  On an ACTIVE reading with no prior ewma the resulting
\* ewma is the arithmetic mean of the window (the seed, with no smoothing step
\* applied to it); with a prior ewma it is 0.1 x value + 0.9 x ewma_old.
C19_EwmaUpdate ==
    \A p \in Procs :
        ScoredActive(p)
            => IF inv[p].loaded[1].ewma_cpu = None
               THEN Near(inv[p].ewma_cpu[1], mean(inv[p].cpu_history))
               ELSE Near(inv[p].ewma_cpu[1],
                         (100 * inv[p].cpu * SCALE
                          + 900 * inv[p].loaded[1].ewma_cpu[1]) \div SCALE)

\* C20: EW-std update.  On the first ACTIVE reading after a cold start the
\* resulting ewmstd is exactly 1.0; on every ACTIVE reading with a prior
\* ewmstd it is sqrt(0.98 x ewmstd_old^2 + 0.02 x dev^2) with
\* dev = |value - ewma_new|.
C20_EwmstdUpdate ==
    \A p \in Procs :
        ScoredActive(p)
            => IF inv[p].loaded[1].ewma_cpu = None
               THEN inv[p].ewmstd_cpu = Some(1 * SCALE)
               ELSE Near(inv[p].ewmstd_cpu[1],
                         FSqrt((980 * FMul(inv[p].loaded[1].ewmstd_cpu[1],
                                           inv[p].loaded[1].ewmstd_cpu[1])
                                + 20 * FMul(Abs(inv[p].cpu * SCALE
                                                - inv[p].ewma_cpu[1]),
                                            Abs(inv[p].cpu * SCALE
                                                - inv[p].ewma_cpu[1])))
                               \div SCALE))

\* the number of times the string m occurs in s
Count(s, m) == Cardinality({i \in 1..Len(s) : s[i] = m})

\* C21: strict triggering.  z_score, ewma_score and rate_of_change are each
\* listed exactly when the score is strictly greater than its threshold (a
\* score equal to its threshold is not), mad and hampel exactly when their
\* boolean test is true; nothing else is listed and nothing is listed twice.
C21_StrictTriggering ==
    call.triggered # None
        => /\ \A i \in 1..Len(Methods) :
                  Count(call.triggered[1], Methods[i])
                  = IF call.scores[Methods[i]] > call.thresholds[Methods[i]]
                    THEN 1 ELSE 0
           /\ Count(call.triggered[1], "mad")
              = IF modified_z_score(ToFixed(call.window), call.thresholds.mad)
                THEN 1 ELSE 0
           /\ Count(call.triggered[1], "hampel")
              = IF hampel_filter(ToFixed(call.window), HAMPEL_K,
                                 call.thresholds.hampel)
                THEN 1 ELSE 0
           /\ \A i \in 1..Len(call.triggered[1]) :
                  call.triggered[1][i]
                      \in {"z_score", "ewma_score", "rate_of_change", "mad",
                           "hampel"}

\* C21 witness: z_score equals its threshold and is not listed, ewma_score is
\* one unit above and listed, rate_of_change one unit below and not listed,
\* and mad is listed while hampel is not
C21_Witness ==
    /\ call.triggered # None
    /\ call.scores.z_score = call.thresholds.z_score
    /\ call.scores.ewma_score = call.thresholds.ewma_score + 1
    /\ call.scores.rate_of_change = call.thresholds.rate_of_change - 1
    /\ call.triggered[1] = <<"ewma_score", "mad">>

\* the smoothing step applied to the state handler instance p loaded and the
\* reading it processes, over the window after the append
Advanced(p) ==
    Smooth(inv[p].cpu * SCALE, mean(inv[p].cpu_history),
           inv[p].loaded[1].ewma_cpu, inv[p].loaded[1].ewmstd_cpu)

\* C22: the state update is independent of the verdict.  For every ACTIVE
\* reading the returned ewma, ewmstd and last value are the smoothing step
\* applied to the input state and the reading, and the reading itself,
\* whether a report is returned or not.
C22_UpdateWhateverVerdict ==
    \A p \in Procs :
        ScoredActive(p)
            => /\ inv[p].ewma_cpu = Some(Advanced(p).ewma_cpu)
               /\ inv[p].ewmstd_cpu = Some(Advanced(p).ewmstd_cpu)
               /\ inv[p].last_cpu = Some(inv[p].cpu)

\* C22 witness: an ACTIVE reading with fewer than 2 triggers and no report;
\* ewma, ewmstd and last value all differ from the loaded ones
C22_Witness ==
    \E p \in Procs :
        /\ ScoredActive(p)
        /\ Len(inv[p].triggered) < 2
        /\ inv[p].report = None
        /\ inv[p].loaded[1].ewma_cpu # None
        /\ inv[p].ewma_cpu # inv[p].loaded[1].ewma_cpu
        /\ inv[p].ewmstd_cpu # inv[p].loaded[1].ewmstd_cpu
        /\ inv[p].last_cpu # inv[p].loaded[1].last_cpu

\* an ACTIVE reading with a report and the same update
C22_WitnessReport ==
    \E p \in Procs :
        /\ ScoredActive(p)
        /\ inv[p].report # None
        /\ inv[p].loaded[1].ewma_cpu # None
        /\ inv[p].ewma_cpu = Some(Advanced(p).ewma_cpu)
        /\ inv[p].ewma_cpu # inv[p].loaded[1].ewma_cpu

\* the report rep describes the reading cpu and the window w after the append
DescribesReading(rep, cpu, w) ==
    /\ rep.value = cpu
    /\ rep.cpu_window = w
    /\ rep.cpu_window[Len(rep.cpu_window)] = rep.value
    /\ Len(rep.cpu_window) >= 50 /\ Len(rep.cpu_window) <= 100
    /\ rep.method_count = Len(rep.methods_triggered)
    /\ rep.hampel_score = Has(rep.methods_triggered, "hampel")
    /\ rep.cpu_mean = mean(w)
    /\ rep.cpu_std = stdev(w)

\* C23: report contents.  Every report has value equal to the reading that
\* triggered it, cpu_window equal to the whole window after the append (its
\* last element the value, its length between 50 and 100), method_count equal
\* to the number of names in methods_triggered, hampel_score true exactly when
\* hampel is among them, and cpu_mean and cpu_std the mean and sample standard
\* deviation of that window.
C23_ReportContents ==
    \A p \in Procs :
        (Returned(p) /\ inv[p].report # None)
            => DescribesReading(inv[p].report[1], inv[p].cpu,
                                inv[p].cpu_history)

\* C23 witness: a report on a full window of 100 readings with hampel among
\* the triggered methods
C23_Witness ==
    \E p \in Procs :
        /\ Returned(p) /\ inv[p].report # None
        /\ Len(inv[p].report[1].cpu_window) = 100
        /\ inv[p].report[1].value = 95
        /\ inv[p].report[1].hampel_score
        /\ inv[p].report[1].method_count = 5

\* a report on a window of 50 readings without hampel
C23_WitnessNoHampel ==
    \E p \in Procs :
        /\ Returned(p) /\ inv[p].report # None
        /\ Len(inv[p].report[1].cpu_window) = 50
        /\ ~inv[p].report[1].hampel_score
        /\ inv[p].report[1].method_count = 3

\* the newest value of the window of the current call, in fixed point
NewestValue == ToFixed(call.window)[Len(call.window)]

\* the 14 values before the newest one, in fixed point
Reference == Trailing14(ToFixed(call.window))

\* C24: Hampel reference window.  hampel_filter returns False for every window
\* shorter than 15 points; otherwise it returns True exactly when the MAD of
\* the 14 points before the newest value is not 0 and
\* |value - median| / MAD, median and MAD taken over those 14 points alone,
\* exceeds the hampel threshold.
C24_HampelReference ==
    call.hampel # None
        => call.hampel[1]
           = IF Len(call.window) < 15 THEN FALSE
             ELSE /\ Mad(Reference) # 0
                  /\ FDiv(Abs(NewestValue - median(Reference)), Mad(Reference))
                     > call.thresholds[1].hampel

\* C24 witness: the 14 values before the outlier are identical while the
\* earlier ones are not; the test over all earlier values would trigger, the
\* test over the 14 does not
C24_Witness ==
    /\ call.hampel = Some(FALSE)
    /\ Len(call.window) > 15
    /\ Mad(Reference) = 0
    /\ Mad(SubSeq(ToFixed(call.window), 1, Len(call.window) - 1)) # 0
    /\ hampel_filter_WholeWindow(ToFixed(call.window), HAMPEL_K,
                                 call.thresholds[1].hampel)

\* a window of exactly 15 points on which the detector triggers
C24_WitnessShortest ==
    /\ call.hampel = Some(TRUE)
    /\ Len(call.window) = 15

\* a window of 3 points that ends in an outlier: no trigger
C24_WitnessTooShort ==
    /\ call.hampel = Some(FALSE)
    /\ Len(call.window) = 3
    /\ call.window[3] = 95

\* C28: the modified z-score test is one-sided, the Hampel test two-sided.
\* modified_z_score never triggers for a newest value at or below the median
\* of the data; hampel_filter triggers on a newest value below the median of
\* its reference window as soon as the absolute deviation over the MAD
\* exceeds the threshold.
C28_OneSidedModifiedZ ==
    /\ (call.mad # None /\ NewestValue <= median(ToFixed(call.window)))
           => call.mad = Some(FALSE)
    /\ (/\ call.hampel # None
        /\ Len(call.window) >= 2 * HAMPEL_K + 1
        /\ NewestValue < median(Reference)
        /\ Mad(Reference) # 0
        /\ FDiv(median(Reference) - NewestValue, Mad(Reference))
           > call.thresholds[1].hampel)
           => call.hampel = Some(TRUE)

\* C28 witness: a drop far below the median; the Hampel test triggers, the
\* modified z-score does not, although the deviation over the MAD is beyond
\* the mad threshold in absolute value
C28_Witness ==
    /\ call.mad = Some(FALSE)
    /\ call.hampel = Some(TRUE)
    /\ NewestValue < median(ToFixed(call.window))
    /\ Mad(ToFixed(call.window)) # 0
    /\ FDiv(MulDiv(median(ToFixed(call.window)) - NewestValue, 6745, 10000),
            Mad(ToFixed(call.window)))
       > call.thresholds[1].mad

\* the same window shape with the outlier above the median: both trigger
C28_WitnessAbove ==
    /\ call.mad = Some(TRUE)
    /\ call.hampel = Some(TRUE)
    /\ NewestValue > median(ToFixed(call.window))

\* the length of the window held under the state key
StoredLen ==
    IF store[S3_KEY] \in {NoObject, Corrupt} THEN 0
    ELSE Len(store[S3_KEY].cpu_history)

\* handler instance p returns from detect_anomaly in this step
Detects(p) == inv[p].pc = "loaded" /\ inv'[p].pc = "detected"

\* handler instance p has saved the state of an ACTIVE reading in this step
SavesActive(p) ==
    /\ inv[p].pc = "detected"
    /\ inv'[p].pc \in {"saved", "done"}
    /\ inv[p].path = "ACTIVE"

C26_WitnessFull ==
    /\ intact
    /\ inv[1].pc = "done"
    /\ inv[1].path = "ACTIVE"
    /\ Len(inv[1].loaded[1].cpu_history) = WINDOW_SIZE
    /\ StoredLen = WINDOW_SIZE

\* the fallback: the load failed, and a reading is in warm-up although 50 or
\* more readings are persisted
C26_WitnessFallback ==
    /\ ~intact
    /\ inv[1].pc = "detected"
    /\ inv[1].path = "WARMING_UP"
    /\ StoredLen >= WINDOW_SIZE \div 2

\* C27: last_value tracks the newest reading.  After every call of
\* detect_anomaly the returned last_cpu is the reading just processed, and it
\* is the last element of the window; while every load and save of the state
\* has succeeded, the rate_of_change of an ACTIVE reading that follows a
\* processed reading is the absolute difference to that reading; the score is
\* 0 only when there is no prior value or the two readings are equal.
C27_LastValueTracksNewest ==
    \A p \in Procs :
        /\ Returned(p)
               => /\ inv[p].last_cpu = Some(inv[p].cpu)
                  /\ inv[p].cpu_history[Len(inv[p].cpu_history)] = inv[p].cpu
        /\ (ScoredActive(p) /\ intact /\ Len(arrived) >= 2)
               => inv[p].scores[1].rate_of_change
                  = Abs(inv[p].cpu - arrived[Len(arrived) - 1].cpu) * SCALE
        /\ (ScoredActive(p) /\ inv[p].scores[1].rate_of_change = 0)
               => \/ inv[p].loaded[1].last_cpu = None
                  \/ inv[p].loaded[1].last_cpu = Some(inv[p].cpu)

\* C27 witness: an ACTIVE reading right after a warm-up reading of this run;
\* its rate_of_change is the jump from the one to the other
C27_Witness ==
    /\ intact
    /\ nread = 2
    /\ ScoredActive(1)
    /\ Len(inv[1].cpu_history) = WINDOW_SIZE \div 2
    /\ arrived[Len(arrived) - 1].cpu = 51
    /\ inv[1].cpu = 95
    /\ inv[1].scores[1].rate_of_change = 44 * SCALE

\* an ACTIVE reading equal to the one before it: rate_of_change 0
C27_WitnessEqual ==
    /\ intact
    /\ ScoredActive(1)
    /\ inv[1].loaded[1].last_cpu = Some(inv[1].cpu)
    /\ inv[1].scores[1].rate_of_change = 0

\* a warm-up reading: no report, and last_cpu is the reading all the same
C27_WitnessWarm ==
    /\ Returned(1)
    /\ inv[1].path = "WARMING_UP"
    /\ inv[1].report = None
    /\ inv[1].last_cpu = Some(95)

\* the severity levels, lowest first
LevelOrder == <<"LOW", "MEDIUM", "HIGH", "CRITICAL">>

Recognised(s) == \E i \in 1..Len(LevelOrder) : LevelOrder[i] = Upper(s)

LevelOf(s) == CHOOSE i \in 1..Len(LevelOrder) : LevelOrder[i] = Upper(s)

\* the threshold in force: an unrecognised setting counts as MEDIUM
EffectiveThreshold(t) == IF Recognised(t) THEN Upper(t) ELSE "MEDIUM"

\* the severity the notifier reads from the event
EventSeverity ==
    IF call.event.severity = None THEN "UNKNOWN" ELSE call.event.severity[1]

\* C29: every report passes the default notification filter.  With the
\* threshold MEDIUM, or with an unrecognised threshold string, the filter
\* returns true for every report of the detection engine; it returns false
\* only for an unrecognised severity or a severity ranked below the
\* threshold in force.
C29_ReportsPassDefaultFilter ==
    call.decision # None
        => /\ (/\ call.event.origin = "engine"
               /\ EffectiveThreshold(call.threshold) = "MEDIUM")
                  => call.decision = Some(TRUE)
           /\ call.decision = Some(FALSE)
                  => \/ ~Recognised(EventSeverity)
                     \/ LevelOf(EventSeverity)
                        < LevelOf(EffectiveThreshold(call.threshold))

\* C29 witness: a MEDIUM report of the engine passes under a threshold
\* setting that is not a severity level
C29_Witness ==
    /\ call.event.origin = "engine"
    /\ call.event.severity = Some("MEDIUM")
    /\ call.threshold = "WARNING"
    /\ call.decision = Some(TRUE)
    /\ call.response = Some("200 sent")

\* a severity below the default threshold is skipped
C29_WitnessBelow ==
    /\ call.event.severity = Some("low")
    /\ call.threshold = NOTIFICATION_THRESHOLD
    /\ call.decision = Some(FALSE)

\* an unrecognised severity is skipped even under the lowest threshold
C29_WitnessUnrecognised ==
    /\ call.event.severity = None
    /\ call.threshold = "LOW"
    /\ call.decision = Some(FALSE)

\* under a threshold above MEDIUM a report of the engine is skipped
C29_WitnessRaisedThreshold ==
    /\ call.event.origin = "engine"
    /\ call.event.severity = Some("HIGH")
    /\ call.threshold = "critical"
    /\ call.response = Some("200 skipped")

\* the requests for barcode b that were answered with statusCode code
AnsweredWith(b, code) ==
    {r \in Requests : /\ reg.req[r].pc = "answered"
                      /\ reg.req[r].barcode = b
                      /\ reg.req[r].kind = "valid"
                      /\ reg.req[r].statusCode = code}

\* C30: registration is at-most-once per barcode.  Whatever the order or
\* interleaving of valid requests with the same barcode, at most one of them
\* is answered 201, and the registry record of the barcode is written once:
\* the record of the request that got 201 is never overwritten.
C30_AtMostOnce ==
    \A b \in Barcodes :
        /\ Cardinality(AnsweredWith(b, 201)) <= 1
        /\ reg.puts[b] <= 1

\* two requests with the same barcode, one after the other: the second one
\* is answered 409 and the record is the first one's
C30_WitnessSerial ==
    \E b \in Barcodes :
        /\ Cardinality(AnsweredWith(b, 201)) = 1
        /\ Cardinality(AnsweredWith(b, 409)) = 1
        /\ reg.puts[b] = 1

\* the window the i-th report of the invocation refers to
WindowOf(b, i) == b.heap[b.reports[i].cpu_window]

\* C25: report immutability.  Once detect_anomaly has returned a report,
\* no step changes it: send_to_eventbridge adds the identifying fields to the
\* outgoing event and leaves the report as it was, and the readings appended
\* to the rolling window afterwards leave the window the report refers to
\* as it was.
C25_ReportImmutable ==
    [][\A i \in 1..Len(batch.reports) :
           /\ batch'.reports[i] = batch.reports[i]
           /\ WindowOf(batch', i) = WindowOf(batch, i)]_vars

\* C25 witness: a report was published, and a later record of the same
\* invocation has been appended to the deque since; the report's window is
\* the 61 readings of its creation, the deque holds 62
C25_Witness ==
    /\ Len(batch.reports) >= 1
    /\ batch.sent # <<>>
    /\ batch.sent[1]
    /\ Len(bus) >= 1
    /\ bus[1].device_id = "dev-A"
    /\ Len(WindowOf(batch, 1)) = 61
    /\ Len(batch.heap[DequeRef]) = 62
    /\ batch.reports[1].value = 95

\* the same on a full deque: the append evicts the oldest reading of the
\* deque, the report's window keeps it
C25_WitnessFull ==
    /\ Len(batch.reports) >= 1
    /\ Len(batch.heap[DequeRef]) = WINDOW_SIZE
    /\ Len(WindowOf(batch, 1)) = WINDOW_SIZE
    /\ WindowOf(batch, 1) # batch.heap[DequeRef]

====
